---------------------------- MODULE Spec2Model ----------------------------
(***************************************************************************)
(* Model of the ngobrol chat backend (backend/src): credential handling,   *)
(* session tokens, the authentication middleware, the auth service and     *)
(* the user repository.                                                    *)
(*                                                                         *)
(* Text is modelled as a sequence of strings.  A header is typed one       *)
(* character per element; a JWT contributes its segments as elements.      *)
(* Every store statement (one sqlx query) is one atomic step; a service    *)
(* function that awaits several statements is several steps, so other      *)
(* requests interleave between them.                                       *)
(***************************************************************************)
EXTENDS Integers, Sequences, FiniteSets, TLC

VARIABLES
    users,      \* table users: sequence of rows, a row's id is its index
    now,        \* the wall clock (Utc::now), in ticks
    leeway,     \* leeway of jsonwebtoken's Validation::default() in this build
    reg,        \* register requests in flight
    login,      \* login requests in flight
    req,        \* requests to protected routes in flight
    pure,       \* the function applied to a drawn input, and what it returned
    rooms,      \* table rooms: sequence of rows in the order of their creation
    room_members, \* table room_members: set of rows
    room_seq,   \* how many room ids the store has generated
    rop         \* RoomService calls in flight

vars == <<users, now, leeway, reg, login, req, pure, rooms, room_members, room_seq, rop>>

\* the tables of the rooms and the RoomService calls
roomVars == <<rooms, room_members, room_seq, rop>>

\* no room stored and no RoomService call in flight
NoRoomState ==
    /\ rooms = <<>>
    /\ room_members = {}
    /\ room_seq = 0
    /\ rop = <<>>

-----------------------------------------------------------------------------
(* Bounds and configuration *)

MaxTime == 3            \* the clock runs 0..MaxTime
JwtExpiresIn == 1       \* config.jwt_expires_in, in ticks
DefaultLeeway == 1      \* Validation::default().leeway (60 s), in ticks
MaxPad == 2             \* longest run of filler characters in a drawn header
MaxWords == 2           \* most words in a constraint name
MaxTtl == 2             \* largest ttl given to generate_token

Secret == "jwt_secret"                  \* config.jwt_secret
Secrets == {Secret, "wrong_secret"}

Emails == {"a@x.io", "b@x.io"}
Usernames == {"alice", "bobby"}
Passwords == {"password1", "hunter22"}
Salts == {"s1", "s2"}

RegProcs == {"r1", "r2", "r3"}
LoginProcs == {"l1", "l2"}
ReqIds == {"q1"}

-----------------------------------------------------------------------------
(* Errors *)

AppError(kind, msg) == [kind |-> kind, msg |-> msg]
NoError == AppError("Ok", "")

SqlxError(type, code, constraint) ==
    [type |-> type, code |-> code, constraint |-> constraint]
NoSqlxError == SqlxError("none", "", <<>>)
RowNotFound == SqlxError("RowNotFound", "", <<>>)

\* str::contains on a constraint name, the name split into its words
Contains(name, word) == \E i \in 1..Len(name) : name[i] = word

\* Faulty variant: the username test comes first
From_sqlx_Error_swapped(err) ==
    IF err.type = "RowNotFound" THEN AppError("UserNotFound", "")
    ELSE IF err.type = "Database"
         THEN IF err.code = "23505"
                 THEN IF Contains(err.constraint, "username")
                         THEN AppError("UsernameExists", "")
                      ELSE AppError("EmailExists", "")
                 ELSE AppError("DatabaseError", "Database operation failed")
         ELSE AppError("DatabaseError", "Database operation failed")

\* impl From<sqlx::Error> for AppError
From_sqlx_Error(err) ==
    IF err.type = "RowNotFound" THEN AppError("UserNotFound", "")
    ELSE IF err.type = "Database"
         THEN IF err.code = "23505"
                 THEN IF Contains(err.constraint, "email")
                         THEN AppError("EmailExists", "")
                      ELSE IF Contains(err.constraint, "username")
                         THEN AppError("UsernameExists", "")
                      ELSE AppError("EmailExists", "")
                 ELSE AppError("DatabaseError", "Database operation failed")
         ELSE AppError("DatabaseError", "Database operation failed")

\* Faulty variant: every kind becomes InvalidToken
From_jwt_Error_flat(kind) == AppError("InvalidToken", "")

\* impl From<jsonwebtoken::errors::Error> for AppError
From_jwt_Error(kind) ==
    IF kind = "ExpiredSignature" THEN AppError("TokenExpired", "")
    ELSE AppError("InvalidToken", "")


-----------------------------------------------------------------------------
(* Text *)

Bearer == <<"B", "e", "a", "r", "e", "r", " ">>
NonAscii == "0xff"                     \* a byte HeaderValue::to_str refuses
Whitespace == {" ", "\t"}

\* str::starts_with
StartsWith(s, p) == Len(s) >= Len(p) /\ SubSeq(s, 1, Len(p)) = p

\* str::trim_start_matches: removes the prefix as often as it repeats
RECURSIVE TrimStartMatches(_, _)
TrimStartMatches(s, p) ==
    IF p # <<>> /\ StartsWith(s, p)
    THEN TrimStartMatches(SubSeq(s, Len(p) + 1, Len(s)), p)
    ELSE s

RECURSIVE TrimStart(_)
TrimStart(s) ==
    IF s # <<>> /\ Head(s) \in Whitespace THEN TrimStart(Tail(s)) ELSE s

RECURSIVE TrimEnd(_)
TrimEnd(s) ==
    IF s # <<>> /\ s[Len(s)] \in Whitespace
    THEN TrimEnd(SubSeq(s, 1, Len(s) - 1))
    ELSE s

\* str::trim
Trim(s) == TrimEnd(TrimStart(s))

\* Result<String, AppError> of the header stage
TokenResult(err, token) == [err |-> err, token |-> token]

\* Faulty variant: the token is not trimmed
extract_token_from_header_untrimmed(auth_header) ==
    IF ~StartsWith(auth_header, Bearer)
    THEN TokenResult(AppError("InvalidToken", ""), <<>>)
    ELSE LET token == TrimStartMatches(auth_header, Bearer)
         IN  IF token = <<>>
             THEN TokenResult(AppError("InvalidToken", ""), <<>>)
             ELSE TokenResult(NoError, token)

\* utils::jwt::extract_token_from_header
extract_token_from_header(auth_header) ==
    IF ~StartsWith(auth_header, Bearer)
    THEN TokenResult(AppError("InvalidToken", ""), <<>>)
    ELSE LET token == Trim(TrimStartMatches(auth_header, Bearer))
         IN  IF token = <<>>
             THEN TokenResult(AppError("InvalidToken", ""), <<>>)
             ELSE TokenResult(NoError, token)

-----------------------------------------------------------------------------
(* Passwords (utils/password.rs) *)

\* the Argon2 digest of a password under a salt
Argon2(password, salt) == ToString(<<"argon2", salt, password>>)

\* Faulty variant: a salt fixed in the code, whatever OsRng draws
hash_password_fixed_salt(password, salt) ==
    <<"$argon2id", "s0", Argon2(password, "s0")>>

\* utils::password::hash_password; the salt is what OsRng draws
hash_password(password, salt) == <<"$argon2id", salt, Argon2(password, salt)>>

\* the algorithm identifiers of the PHC strings used
PhcIdents == {"$argon2id", "$pbkdf2-sha256"}

\* PasswordHash::new: a PHC string is "$" and an identifier, then optional
\* fields, the salt and the digest among them
PasswordHashParses(password_hash) ==
    Len(password_hash) \in 1..3 /\ password_hash[1] \in PhcIdents

\* Argon2::verify_password: an error for a hash of another algorithm, for one
\* without salt or digest, and for a digest that differs
Argon2_verify_password(password, parsed_hash) ==
    /\ parsed_hash[1] = "$argon2id"
    /\ Len(parsed_hash) = 3
    /\ parsed_hash[3] = Argon2(password, parsed_hash[2])

\* Faulty variant: the verifier's error is returned with `?`
verify_password_propagated(password, password_hash) ==
    IF ~PasswordHashParses(password_hash)
    THEN [err |-> AppError("InternalError", "Invalid password hash"), valid |-> FALSE]
    ELSE IF Argon2_verify_password(password, password_hash)
    THEN [err |-> NoError, valid |-> TRUE]
    ELSE [err |-> AppError("InternalError", "Password hashing failed"), valid |-> FALSE]

\* utils::password::verify_password: "InternalError", or "true" / "false"
verify_password(password, password_hash) ==
    IF ~PasswordHashParses(password_hash)
    THEN [err |-> AppError("InternalError", "Invalid password hash"), valid |-> FALSE]
    ELSE [err |-> NoError, valid |-> Argon2_verify_password(password, password_hash)]

-----------------------------------------------------------------------------
(* Session tokens (utils/jwt.rs) *)

MaxStamp == MaxTime + MaxTtl + JwtExpiresIn
Stamps == 0..MaxStamp

\* struct Claims
Claims(sub, exp, iat, email, username) ==
    [sub |-> sub, exp |-> exp, iat |-> iat, email |-> email, username |-> username]
NoClaims == Claims("", 0, 0, "", "")

JwtHeader == "HS256"                    \* Header::default()

\* the HMAC of the header and payload segments under a secret
Mac(secret, segments) == ToString(<<secret>> \o segments)

\* jsonwebtoken::encode: header, the claims' fields, signature
encode(claims, secret) ==
    LET body == <<JwtHeader, claims.sub, ToString(claims.exp), ToString(claims.iat),
                  claims.email, claims.username>>
    IN  body \o <<Mac(secret, body)>>

\* Uuid::to_string
UuidToString(id) == ToString(id)

\* utils::jwt::generate_token, called when the clock reads t
generate_token(user_id, email, username, secret, expires_in_seconds, t) ==
    encode(Claims(UuidToString(user_id), t + expires_in_seconds, t, email, username),
           secret)

IsStamp(s) == \E n \in Stamps : ToString(n) = s
ParseStamp(s) == CHOOSE n \in Stamps : ToString(n) = s

JwtResult(kind, claims) == [kind |-> kind, claims |-> claims]

\* Faulty variant: the signature is not checked
decode_unsigned(token, secret, lw, t) ==
    IF Len(token) # 7 THEN JwtResult("InvalidToken", NoClaims)
    ELSE IF ~IsStamp(token[3]) \/ ~IsStamp(token[4]) THEN JwtResult("Json", NoClaims)
    ELSE IF ParseStamp(token[3]) < t - lw THEN JwtResult("ExpiredSignature", NoClaims)
    ELSE JwtResult("Ok", Claims(token[2], ParseStamp(token[3]), ParseStamp(token[4]),
                                token[5], token[6]))

\* jsonwebtoken::decode with Validation::default(): three checks in this order,
\* the form, the signature, then the expiry with the validation's leeway
decode(token, secret, lw, t) ==
    IF Len(token) # 7 THEN JwtResult("InvalidToken", NoClaims)
    ELSE IF token[1] # JwtHeader THEN JwtResult("InvalidAlgorithm", NoClaims)
    ELSE IF token[7] # Mac(secret, SubSeq(token, 1, 6))
         THEN JwtResult("InvalidSignature", NoClaims)
    ELSE IF ~IsStamp(token[3]) \/ ~IsStamp(token[4]) THEN JwtResult("Json", NoClaims)
    ELSE IF ParseStamp(token[3]) < t - lw THEN JwtResult("ExpiredSignature", NoClaims)
    ELSE JwtResult("Ok", Claims(token[2], ParseStamp(token[3]), ParseStamp(token[4]),
                                token[5], token[6]))

ClaimsResult(err, claims) == [err |-> err, claims |-> claims]

\* utils::jwt::verify_token
jwt_verify_token(token, secret, lw, t) ==
    LET token_data == decode(token, secret, lw, t)
    IN  IF token_data.kind = "Ok"
        THEN ClaimsResult(NoError, token_data.claims)
        ELSE ClaimsResult(From_jwt_Error(token_data.kind), NoClaims)

-----------------------------------------------------------------------------
(* The users table (repositories/user_repo.rs) *)

\* struct User, without the fields no operation here reads
User(id, username, email, password_hash, status, is_active) ==
    [id |-> id, username |-> username, email |-> email,
     password_hash |-> password_hash, status |-> status, is_active |-> is_active]
NoUser == User(0, "", "", <<>>, "", FALSE)

Rows(usrs) == {usrs[i] : i \in 1..Len(usrs)}

\* the unique constraints of table users, by name
UsersEmailKey == <<"users", "email", "key">>
UsersUsernameKey == <<"users", "username", "key">>

\* Faulty variant: a table users declared without its unique constraints
UniqueViolations_none(usrs, username, email) ==
    {c \in {UsersEmailKey, UsersUsernameKey} : FALSE}

\* the constraints an INSERT of (username, email) into users would violate
UniqueViolations(usrs, username, email) ==
    {c \in {UsersEmailKey} : \E u \in Rows(usrs) : u.email = email}
    \cup {c \in {UsersUsernameKey} : \E u \in Rows(usrs) : u.username = username}

\* UserRepository::create: the outcomes of the INSERT. A violated unique
\* constraint fails the statement with code 23505 and the constraint's name;
\* when two are violated the store reports either.
UserRepository_create(usrs, dto, password_hash) ==
    LET violated == UniqueViolations(usrs, dto.username, dto.email)
        row == User(Len(usrs) + 1, dto.username, dto.email, password_hash,
                    "offline", TRUE)
    IN  IF violated = {}
        THEN {[err |-> NoSqlxError, users |-> Append(usrs, row), user |-> row]}
        ELSE {[err |-> SqlxError("Database", "23505", c), users |-> usrs,
               user |-> NoUser] : c \in violated}

UserResult(err, user) == [err |-> err, user |-> user]

\* fetch_one over the rows a query selects
FetchOne(usrs, selected) ==
    IF \E i \in 1..Len(usrs) : selected[i]
    THEN UserResult(NoError, usrs[CHOOSE i \in 1..Len(usrs) :
                        selected[i] /\ \A j \in 1..(i - 1) : ~selected[j]])
    ELSE UserResult(From_sqlx_Error(RowNotFound), NoUser)

\* UserRepository::find_by_email
UserRepository_find_by_email(usrs, email) ==
    FetchOne(usrs, [i \in 1..Len(usrs) |-> usrs[i].email = email /\ usrs[i].is_active])

\* Faulty variant: the query also asks for a user who is not offline
UserRepository_find_by_id_online(usrs, user_id) ==
    FetchOne(usrs, [i \in 1..Len(usrs) |->
        usrs[i].id = user_id /\ usrs[i].is_active /\ usrs[i].status # "offline"])

\* Faulty variant: the query without "AND is_active = true"
UserRepository_find_by_id_any(usrs, user_id) ==
    FetchOne(usrs, [i \in 1..Len(usrs) |-> usrs[i].id = user_id])

\* UserRepository::find_by_id
UserRepository_find_by_id(usrs, user_id) ==
    FetchOne(usrs, [i \in 1..Len(usrs) |-> usrs[i].id = user_id /\ usrs[i].is_active])

\* Faulty variant: the UPDATE changes no row
UserRepository_update_status_none(usrs, user_id, status) == usrs

\* UserRepository::update_status: the table after the UPDATE
UserRepository_update_status(usrs, user_id, status) ==
    [i \in 1..Len(usrs) |->
        IF usrs[i].id = user_id /\ usrs[i].is_active
        THEN [usrs[i] EXCEPT !.status = status]
        ELSE usrs[i]]

\* UserRepository::email_exists
UserRepository_email_exists(usrs, email) == \E u \in Rows(usrs) : u.email = email

\* UserRepository::username_exists
UserRepository_username_exists(usrs, username) ==
    \E u \in Rows(usrs) : u.username = username

-----------------------------------------------------------------------------
(* AuthService::register (services/auth_service.rs) *)

CreateUserDto(username, email, password) ==
    [username |-> username, email |-> email, password |-> password]
NoDto == CreateUserDto("", "", "")

\* the validator crate's email rule, on the sample addresses
validate_email(email) == email \notin {"", "not-an-email"}

\* CreateUserDto::validate
validate_CreateUserDto(dto) ==
    /\ Len(dto.username) >= 3 /\ Len(dto.username) <= 50
    /\ validate_email(dto.email)
    /\ Len(dto.password) >= 8

RegisterInputs ==
    {CreateUserDto(u, e, "password1") : u \in Usernames, e \in Emails}
    \cup {CreateUserDto("al", "a@x.io", "password1"),
          CreateUserDto("alice", "not-an-email", "password1"),
          CreateUserDto("alice", "a@x.io", "short")}

\* a register request: where it stands, its input and what it returned
RegIdle == [pc |-> "idle", dto |-> NoDto, result |-> NoError, user |-> NoUser,
            token |-> <<>>]

RegFail(p, dto, error) ==
    reg' = [reg EXCEPT ![p] = [pc |-> "done", dto |-> dto, result |-> error,
                               user |-> NoUser, token |-> <<>>]]

\* register up to the end of its first statement: validate, then email_exists
register_email_exists(p) ==
    /\ reg[p].pc = "idle"
    /\ \E dto \in RegisterInputs :
        IF ~validate_CreateUserDto(dto)
        THEN RegFail(p, dto, AppError("ValidationError", ""))
        ELSE IF UserRepository_email_exists(users, dto.email)
        THEN RegFail(p, dto, AppError("DuplicateEntry", "Email already registered"))
        ELSE reg' = [reg EXCEPT ![p] = [RegIdle EXCEPT !.pc = "username_exists",
                                                       !.dto = dto]]
    /\ UNCHANGED <<users, now, leeway, login, req, pure, roomVars>>

\* register's second statement: username_exists
register_username_exists(p) ==
    /\ reg[p].pc = "username_exists"
    /\ IF UserRepository_username_exists(users, reg[p].dto.username)
       THEN RegFail(p, reg[p].dto, AppError("DuplicateEntry", "Username already taken"))
       ELSE reg' = [reg EXCEPT ![p].pc = "create"]
    /\ UNCHANGED <<users, now, leeway, login, req, pure, roomVars>>

\* register's last statement: hash the password, INSERT, issue the token
register_create(p) ==
    /\ reg[p].pc = "create"
    /\ \E salt \in Salts :
       \E out \in UserRepository_create(users, reg[p].dto,
                                        hash_password(reg[p].dto.password, salt)) :
        IF out.err # NoSqlxError
        THEN /\ RegFail(p, reg[p].dto, From_sqlx_Error(out.err))
             /\ UNCHANGED users
        ELSE /\ users' = out.users
             /\ reg' = [reg EXCEPT ![p] =
                    [pc |-> "done", dto |-> reg[p].dto, result |-> NoError,
                     user |-> out.user,
                     token |-> generate_token(out.user.id, out.user.email,
                                   out.user.username, Secret, JwtExpiresIn, now)]]
    /\ UNCHANGED <<now, leeway, login, req, pure, roomVars>>

-----------------------------------------------------------------------------
(* AuthService::login and AuthService::logout (services/auth_service.rs) *)

LoginDto(email, password) == [email |-> email, password |-> password]
NoLoginDto == LoginDto("", "")

\* LoginDto::validate
validate_LoginDto(dto) == validate_email(dto.email) /\ Len(dto.password) >= 1

LoginInputs ==
    {LoginDto(e, pw) : e \in Emails \cup {"c@x.io"}, pw \in Passwords}
    \cup {LoginDto("not-an-email", "password1"), LoginDto("a@x.io", "")}

\* a login request: where it stands, its input, the row find_by_email
\* returned, and what the request returned (user is the body's projection)
LoginIdle == [pc |-> "idle", dto |-> NoLoginDto, user |-> NoUser,
              result |-> NoError, token |-> <<>>]

LoginFail(p, dto, error) ==
    login' = [login EXCEPT ![p] = [pc |-> "done", dto |-> dto, user |-> NoUser,
                                   result |-> error, token |-> <<>>]]

\* Faulty variant: the lookup's error is propagated with `?`
find_by_email_map_err_propagated(err) == err

\* .map_err(|_| AppError::InvalidCredentials) on find_by_email
find_by_email_map_err(err) == AppError("InvalidCredentials", "")

\* login up to the end of its first statement: validate, find_by_email (every
\* error of which becomes InvalidCredentials), then verify_password
login_find_by_email(p) ==
    /\ login[p].pc = "idle"
    /\ \E dto \in LoginInputs :
        IF ~validate_LoginDto(dto)
        THEN LoginFail(p, dto, AppError("ValidationError", ""))
        ELSE LET found == UserRepository_find_by_email(users, dto.email)
                 is_valid == verify_password(dto.password, found.user.password_hash)
             IN  IF found.err # NoError
                 THEN LoginFail(p, dto, find_by_email_map_err(found.err))
                 ELSE IF is_valid.err # NoError
                 THEN LoginFail(p, dto, is_valid.err)
                 ELSE IF ~is_valid.valid
                 THEN LoginFail(p, dto, AppError("InvalidCredentials", ""))
                 ELSE login' = [login EXCEPT ![p] =
                         [LoginIdle EXCEPT !.pc = "update_status", !.dto = dto,
                                           !.user = found.user]]
    /\ UNCHANGED <<users, now, leeway, reg, req, pure, roomVars>>

\* login's second statement: update_status to online, then the token and the
\* response, both built from the row read before the update
login_update_status(p) ==
    /\ login[p].pc = "update_status"
    /\ users' = UserRepository_update_status(users, login[p].user.id, "online")
    /\ login' = [login EXCEPT ![p].pc = "done",
                              ![p].token = generate_token(login[p].user.id,
                                   login[p].user.email, login[p].user.username,
                                   Secret, JwtExpiresIn, now)]
    /\ UNCHANGED <<now, leeway, reg, req, pure, roomVars>>

\* AuthService::logout, for the caller the gateway resolved
logout(user_id) ==
    /\ users' = UserRepository_update_status(users, user_id, "offline")
    /\ UNCHANGED <<now, leeway, reg, login, req, pure, roomVars>>

-----------------------------------------------------------------------------
(* The environment: time passes, an identity is deactivated *)

Tick ==
    /\ now < MaxTime
    /\ now' = now + 1
    /\ UNCHANGED <<users, leeway, reg, login, req, pure, roomVars>>

\* the active flag of an identity is cleared (soft disable)
Deactivate(user_id) ==
    /\ \E i \in 1..Len(users) : users[i].id = user_id /\ users[i].is_active
    /\ users' = [i \in 1..Len(users) |->
                    IF users[i].id = user_id
                    THEN [users[i] EXCEPT !.is_active = FALSE]
                    ELSE users[i]]
    /\ UNCHANGED <<now, leeway, reg, login, req, pure, roomVars>>

-----------------------------------------------------------------------------
(* The system after start-up: an empty store, no request in flight *)

LeewayBuilds == {0, DefaultLeeway}
NoPure == [fn |-> "none"]

Init ==
    /\ users = <<>>
    /\ now = 0
    /\ leeway \in LeewayBuilds
    /\ reg = [p \in RegProcs |-> RegIdle]
    /\ login = <<>>
    /\ req = <<>>
    /\ pure = NoPure
    /\ NoRoomState

Next ==
    \E p \in RegProcs :
        \/ register_email_exists(p)
        \/ register_username_exists(p)
        \/ register_create(p)

Spec == Init /\ [][Next]_vars

-----------------------------------------------------------------------------
(* Properties of register *)

RegOk(p) == reg[p].pc = "done" /\ reg[p].result = NoError
RegFailed(p, kind) == reg[p].pc = "done" /\ reg[p].result.kind = kind

\* two register requests, and no third, with valid input, the same email and
\* different usernames, both finished
SameEmailPair(p, q) ==
    /\ p # q
    /\ reg[p].pc = "done" /\ reg[q].pc = "done"
    /\ \A r \in RegProcs \ {p, q} : reg[r].pc = "idle"
    /\ validate_CreateUserDto(reg[p].dto) /\ validate_CreateUserDto(reg[q].dto)
    /\ reg[p].dto.email = reg[q].dto.email
    /\ reg[p].dto.username # reg[q].dto.username

\* C1: of two register requests with the same email and different usernames,
\* in whatever order their statements ran, exactly one succeeds (identity
\* stored, token issued) and the other fails with EmailExists.
C1_OneSuccessOtherEmailExists ==
    \A p, q \in RegProcs :
        SameEmailPair(p, q) =>
            \/ RegOk(p) /\ reg[p].token # <<>> /\ RegFailed(q, "EmailExists")
            \/ RegOk(q) /\ reg[q].token # <<>> /\ RegFailed(p, "EmailExists")

\* C2: no two stored identities share an email, and no two share a username.
C2_UniqueIdentities ==
    \A i, j \in 1..Len(users) :
        i # j => /\ users[i].email # users[j].email
                 /\ users[i].username # users[j].username

\* two identities are stored and an INSERT that had passed both pre-checks
\* was refused by the store
C2_Witness ==
    /\ Len(users) >= 2
    /\ \E p \in RegProcs : RegFailed(p, "EmailExists") \/ RegFailed(p, "UsernameExists")

\* the request of p has been refused with this kind, nothing stored or issued
RegRefused(p, kind) ==
    /\ reg'[p].pc = "done" /\ reg'[p].result.kind = kind
    /\ reg'[p].user = NoUser /\ reg'[p].token = <<>>
    /\ users' = users

\* C13: a register with valid input whose email is stored is refused with
\* EmailExists, and one with a free email and a stored username with
\* UsernameExists; in both cases no identity is stored and no token issued.
C13_PreCheckErrors ==
    [][\A p \in RegProcs :
        /\ (/\ reg[p].pc = "idle" /\ reg'[p].pc # "idle"
            /\ validate_CreateUserDto(reg'[p].dto)
            /\ \E u \in Rows(users) : u.email = reg'[p].dto.email)
           => RegRefused(p, "EmailExists")
        /\ (/\ reg[p].pc = "username_exists" /\ reg'[p].pc # "username_exists"
            /\ \E u \in Rows(users) : u.username = reg[p].dto.username)
           => RegRefused(p, "UsernameExists")]_vars

-----------------------------------------------------------------------------
(* Logins against a store that holds two registered identities *)

\* the table after alice and bobby registered
SeededUsers ==
    <<User(1, "alice", "a@x.io", hash_password("password1", "s1"), "offline", TRUE),
      User(2, "bobby", "b@x.io", hash_password("password1", "s2"), "offline", TRUE)>>

UserIds(usrs) == {usrs[i].id : i \in 1..Len(usrs)}

InitLogin ==
    /\ users = SeededUsers
    /\ now = 0
    /\ leeway \in LeewayBuilds
    /\ reg = <<>>
    /\ login = [p \in LoginProcs |-> LoginIdle]
    /\ req = <<>>
    /\ pure = NoPure
    /\ NoRoomState

NextLogin ==
    \/ \E p \in LoginProcs : login_find_by_email(p) \/ login_update_status(p)
    \/ \E id \in UserIds(users) : logout(id)
    \/ \E id \in UserIds(users) : Deactivate(id)
    \/ Tick

SpecLogin == InitLogin /\ [][NextLogin]_vars

-----------------------------------------------------------------------------
(* Properties of login *)

\* no active identity has the email
NoActiveIdentity(usrs, email) ==
    ~\E u \in Rows(usrs) : u.email = email /\ u.is_active

\* an active identity has the email, and its hash is not the password's
WrongPassword(usrs, dto) ==
    \E u \in Rows(usrs) :
        /\ u.email = dto.email /\ u.is_active
        /\ u.password_hash[3] # Argon2(dto.password, u.password_hash[2])

InvalidCredentialsReply ==
    [pc |-> "done", dto |-> NoLoginDto, user |-> NoUser,
     result |-> AppError("InvalidCredentials", ""), token |-> <<>>]

\* C10: a login with a well-formed email of no active identity and a login
\* with a wrong password for an existing one return the same reply,
\* InvalidCredentials, and leave the store as it was.
C10_LoginFailuresIndistinguishable ==
    [][\A p \in LoginProcs :
        (/\ login[p].pc = "idle" /\ login'[p].pc # "idle"
         /\ validate_LoginDto(login'[p].dto)
         /\ \/ NoActiveIdentity(users, login'[p].dto.email)
            \/ WrongPassword(users, login'[p].dto))
        => /\ login'[p] = [InvalidCredentialsReply EXCEPT !.dto = login'[p].dto]
           /\ users' = users]_vars

\* one login with an unknown email and one with a wrong password have both
\* been answered
C10_Witness ==
    \E p, q \in LoginProcs :
        /\ login[p].pc = "done" /\ login[p].dto.email = "c@x.io"
        /\ login[p].result.kind = "InvalidCredentials"
        /\ login[q].pc = "done" /\ login[q].dto = LoginDto("a@x.io", "hunter22")
        /\ login[q].result.kind = "InvalidCredentials"

\* the token passes verification under the server's secret when issued
TokenVerifiesAtIssue(token) ==
    jwt_verify_token(token, Secret, leeway, ParseStamp(token[4])).err = NoError

\* an active identity has the email, and its hash is the password's
CorrectPassword(usrs, dto) ==
    \E u \in Rows(usrs) :
        /\ u.email = dto.email /\ u.is_active
        /\ u.password_hash[3] = Argon2(dto.password, u.password_hash[2])

\* C11: a login with the password of an active identity passes the credential
\* step as that identity and then succeeds: the identity, while still active,
\* has presence status online in the store and the token returned has the
\* identity's id as its subject.
C11_LoginSetsOnline ==
    [][\A p \in LoginProcs :
        /\ (/\ login[p].pc = "idle" /\ login'[p].pc # "idle"
            /\ validate_LoginDto(login'[p].dto)
            /\ CorrectPassword(users, login'[p].dto))
           => /\ login'[p].pc = "update_status"
              /\ login'[p].user.email = login'[p].dto.email
              /\ login'[p].user.is_active
        /\ (login[p].pc = "update_status" /\ login'[p].pc # "update_status")
           => /\ login'[p].pc = "done" /\ login'[p].result = NoError
              /\ login'[p].token[2] = UuidToString(login[p].user.id)
              /\ TokenVerifiesAtIssue(login'[p].token)
              /\ \A i \in 1..Len(users) :
                    users[i].id = login[p].user.id /\ users[i].is_active
                    => users'[i].status = "online"]_vars

\* alice, offline before, has logged in: her row reads online and the token
\* names her
C11_Witness ==
    \E p \in LoginProcs :
        /\ login[p].pc = "done" /\ login[p].result = NoError
        /\ login[p].dto = LoginDto("a@x.io", "password1")
        /\ login[p].user.status = "offline"
        /\ login[p].token[2] = "1"
        /\ \E u \in Rows(users) : u.id = 1 /\ u.status = "online"

-----------------------------------------------------------------------------
(* The route table (main.rs) and the gateway (middleware/auth.rs) *)

Route(method, scope, path, handler, wrap) ==
    [method |-> method, scope |-> scope, path |-> path, handler |-> handler,
     wrap |-> wrap]

\* the routes of App::new(); wrap is the .wrap(AuthMiddleware) on the route
\* itself, the scope /api/rooms is wrapped as a whole
Routes ==
    {Route("GET", "", "/", "index", FALSE),
     Route("GET", "", "/health", "health_check", FALSE),
     Route("POST", "/api/auth", "/register", "register", FALSE),
     Route("POST", "/api/auth", "/login", "login", FALSE),
     Route("GET", "/api/auth", "/me", "get_me", TRUE),
     Route("POST", "/api/auth", "/logout", "logout", TRUE),
     Route("GET", "/api/rooms", "", "list_rooms", FALSE),
     Route("POST", "/api/rooms", "", "create_room", FALSE),
     Route("GET", "/api/rooms", "/{id}", "get_room", FALSE),
     Route("PUT", "/api/rooms", "/{id}", "update_room", FALSE),
     Route("DELETE", "/api/rooms", "/{id}", "delete_room", FALSE),
     Route("POST", "/api/rooms", "/{id}/join", "join_room", FALSE),
     Route("POST", "/api/rooms", "/{id}/leave", "leave_room", FALSE),
     Route("GET", "/api/rooms", "/{id}/members", "get_members", FALSE)}

WrappedScopes == {"/api/rooms"}

\* Faulty variant: the .wrap on the scope /api/rooms is left out
Wrapped_route_only(route) == route.wrap

\* whether AuthMiddleware runs before the route's handler
Wrapped(route) == route.wrap \/ route.scope \in WrappedScopes

\* the handlers that take an AuthUser argument (handlers/auth.rs, handlers/room.rs)
AuthUserHandlers ==
    {"get_me", "logout", "list_rooms", "create_room", "get_room", "update_room",
     "delete_room", "join_room", "leave_room", "get_members"}

\* the Authorization header of a request
Header(present, value) == [present |-> present, value |-> value]
NoHeader == Header(FALSE, <<>>)

\* HeaderValue::to_str succeeds on visible ASCII only
ToStrOk(value) == \A i \in 1..Len(value) : value[i] # NonAscii

\* AuthMiddlewareService::call up to the token: the part that runs before the
\* future is built
call_header_stage(auth_header) ==
    IF ~auth_header.present THEN TokenResult(AppError("MissingToken", ""), <<>>)
    ELSE IF ~ToStrOk(auth_header.value)
    THEN TokenResult(AppError("InvalidToken", ""), <<>>)
    ELSE extract_token_from_header(auth_header.value)

MaxUuid == 3
Uuids == 1..MaxUuid
IsUuid(s) == \E n \in Uuids : UuidToString(n) = s
\* Uuid::parse_str
ParseUuid(s) == CHOOSE n \in Uuids : UuidToString(n) = s

\* Faulty variant: the user is looked up by the email claim
AuthService_verify_token_by_email(usrs, token, lw, t) ==
    LET claims == jwt_verify_token(token, Secret, lw, t)
    IN  IF claims.err # NoError THEN UserResult(claims.err, NoUser)
        ELSE UserRepository_find_by_email(usrs, claims.claims.email)

\* AuthService::verify_token
AuthService_verify_token(usrs, token, lw, t) ==
    LET claims == jwt_verify_token(token, Secret, lw, t)
    IN  IF claims.err # NoError THEN UserResult(claims.err, NoUser)
        ELSE IF ~IsUuid(claims.claims.sub)
        THEN UserResult(AppError("InvalidToken", ""), NoUser)
        ELSE UserRepository_find_by_id(usrs, ParseUuid(claims.claims.sub))

\* Faulty variant: a request without an id is given the nil Uuid
from_request_nil(extensions) ==
    IF extensions = {}
    THEN [err |-> NoError, id |-> 0]
    ELSE [err |-> NoError, id |-> CHOOSE id \in extensions : TRUE]

\* impl FromRequest for AuthUser: the Uuid of the request's extensions, if any
from_request(extensions) ==
    IF extensions = {}
    THEN [err |-> AppError("Unauthorized", "User not authenticated"), id |-> 0]
    ELSE [err |-> NoError, id |-> CHOOSE id \in extensions : TRUE]

\* the handler service: the arguments are extracted first, and the body runs
\* only if every extraction succeeded
handler_service(handler, extensions) ==
    LET auth_user == from_request(extensions)
    IN  IF handler \notin AuthUserHandlers
        THEN [err |-> NoError, auth_user |-> 0, ran |-> TRUE]
        ELSE IF auth_user.err # NoError
        THEN [err |-> auth_user.err, auth_user |-> 0, ran |-> FALSE]
        ELSE [err |-> NoError, auth_user |-> auth_user.id, ran |-> TRUE]

\* the future of AuthMiddlewareService::call up to service.call(req): the
\* error returned, or the extensions after the insert of user.id
call_future(usrs, token, lw, t) ==
    LET user == AuthService_verify_token(usrs, token, lw, t)
    IN  IF user.err # NoError
        THEN [err |-> user.err, extensions |-> {}]
        ELSE [err |-> NoError, extensions |-> {user.user.id}]

\* a request: where it stands, its route, the token of its header, its
\* extensions, the AuthUser the handler's body got, whether that body ran, and
\* what the request returned
ReqIdle == [pc |-> "idle", route |-> Route("", "", "", "", FALSE), token |-> <<>>,
            extensions |-> {}, auth_user |-> 0, ran |-> FALSE, result |-> NoError]

\* the tokens the server has issued by time t to the registered identities
IssuedTokens(t) ==
    {generate_token(u.id, u.email, u.username, Secret, JwtExpiresIn, t0) :
        u \in Rows(SeededUsers), t0 \in 0..t}

\* a token issued to an identity whose row has since been removed
RemovedUserTokens(t) ==
    {generate_token(MaxUuid, "c@x.io", "carol", Secret, JwtExpiresIn, t0) : t0 \in 0..t}

\* an issued token's claims signed again under another secret
ForgedTokens(t) ==
    {SubSeq(tok, 1, 6) \o <<Mac("wrong_secret", SubSeq(tok, 1, 6))>> :
        tok \in IssuedTokens(t)}

\* an issued token with its subject replaced and its signature kept
TamperedTokens(t) ==
    {[tok EXCEPT ![2] = UuidToString(id)] : tok \in IssuedTokens(t), id \in Uuids}
    \ IssuedTokens(t)

ClientTokens(t) ==
    IssuedTokens(t) \cup RemovedUserTokens(t) \cup ForgedTokens(t)
    \cup TamperedTokens(t) \cup {<<"x">>}

\* the Authorization headers a client sends at time t
ClientHeaders(t) ==
    {NoHeader, Header(TRUE, <<>>), Header(TRUE, Bearer), Header(TRUE, <<NonAscii>>)}
    \cup {Header(TRUE, Bearer \o tok) : tok \in ClientTokens(t)}
    \cup {Header(TRUE, tok) : tok \in IssuedTokens(t)}

\* a request arrives. On a wrapped route AuthMiddlewareService::call runs its
\* header stage; on any other route the handler is called at once.
call(q) ==
    /\ req[q].pc = "idle"
    /\ \E route \in Routes, auth_header \in ClientHeaders(now) :
        IF ~Wrapped(route)
        THEN req' = [req EXCEPT ![q] = [ReqIdle EXCEPT !.pc = "service_call",
                                                       !.route = route]]
        ELSE LET stage == call_header_stage(auth_header)
             IN  IF stage.err # NoError
                 THEN req' = [req EXCEPT ![q] = [ReqIdle EXCEPT !.pc = "done",
                                  !.route = route, !.result = stage.err]]
                 ELSE req' = [req EXCEPT ![q] = [ReqIdle EXCEPT !.pc = "verify_token",
                                  !.route = route, !.token = stage.token]]
    /\ UNCHANGED <<users, now, leeway, reg, login, pure, roomVars>>

\* the future of AuthMiddlewareService::call: verify_token, then the user id
\* into the extensions, then the handler
call_verify_token(q) ==
    /\ req[q].pc = "verify_token"
    /\ LET future == call_future(users, req[q].token, leeway, now)
       IN  IF future.err # NoError
           THEN req' = [req EXCEPT ![q].pc = "done", ![q].result = future.err]
           ELSE req' = [req EXCEPT ![q].pc = "service_call",
                                   ![q].extensions = future.extensions]
    /\ UNCHANGED <<users, now, leeway, reg, login, pure, roomVars>>

\* service.call(req): the extractor, then the handler's body. The bodies of
\* the room handlers and of the open routes act on nothing modelled here.
service_call(q) ==
    /\ req[q].pc = "service_call"
    /\ LET handler == req[q].route.handler
           called == handler_service(handler, req[q].extensions)
       IN  IF ~called.ran
           THEN /\ req' = [req EXCEPT ![q].pc = "done", ![q].result = called.err]
                /\ UNCHANGED users
           ELSE IF handler = "get_me"
           THEN /\ req' = [req EXCEPT ![q].pc = "done", ![q].ran = TRUE,
                             ![q].auth_user = called.auth_user,
                             ![q].result =
                                 UserRepository_find_by_id(users, called.auth_user).err]
                /\ UNCHANGED users
           ELSE IF handler = "logout"
           THEN /\ req' = [req EXCEPT ![q].pc = "done", ![q].ran = TRUE,
                                   ![q].auth_user = called.auth_user]
                /\ users' = UserRepository_update_status(users, called.auth_user,
                                                         "offline")
           ELSE /\ req' = [req EXCEPT ![q].pc = "done", ![q].ran = TRUE,
                                   ![q].auth_user = called.auth_user]
                /\ UNCHANGED users
    /\ UNCHANGED <<now, leeway, reg, login, pure, roomVars>>

\* the response is sent; the worker takes the next request
respond(q) ==
    /\ req[q].pc = "done"
    /\ req' = [req EXCEPT ![q] = ReqIdle]
    /\ UNCHANGED <<users, now, leeway, reg, login, pure, roomVars>>

\* the seeded table with each presence status a login or logout may have left
PresenceStates ==
    {[i \in 1..Len(SeededUsers) |-> [SeededUsers[i] EXCEPT !.status = st[i]]] :
        st \in [1..Len(SeededUsers) -> {"offline", "online"}]}

InitGate ==
    /\ users \in PresenceStates
    /\ now = 0
    /\ leeway \in LeewayBuilds
    /\ reg = <<>>
    /\ login = <<>>
    /\ req = [q \in ReqIds |-> ReqIdle]
    /\ pure = NoPure
    /\ NoRoomState

NextGate ==
    \/ \E q \in ReqIds : call(q)
    \/ \E q \in ReqIds : call_verify_token(q)
    \/ \E q \in ReqIds : service_call(q)
    \/ \E q \in ReqIds : respond(q)
    \/ \E id \in UserIds(users) : Deactivate(id)
    \/ Tick

SpecGate == InitGate /\ [][NextGate]_vars

-----------------------------------------------------------------------------
(* Properties of the gateway *)

\* the routes named protected: /api/auth/me, /api/auth/logout, all of /api/rooms
ClaimedProtected(route) ==
    \/ route.scope = "/api/auth" /\ route.path \in {"/me", "/logout"}
    \/ route.scope = "/api/rooms"

\* C3: on a protected route the handler is called only by the step in which
\* verify_token succeeded and put the resolved user's id into the request's
\* extensions; a request the gateway refused never runs its handler.
C3_HandlerOnlyAfterIdentity ==
    /\ [](\A q \in DOMAIN req :
            ClaimedProtected(req[q].route) /\ (req[q].pc = "service_call" \/ req[q].ran)
            => \E id \in UserIds(users) : req[q].extensions = {id})
    /\ [][\A q \in DOMAIN req :
            (/\ ClaimedProtected(req'[q].route)
             /\ req'[q].pc = "service_call" /\ req[q].pc # "service_call")
            => /\ req[q].pc = "verify_token"
               /\ LET user == AuthService_verify_token(users, req[q].token, leeway, now)
                  IN  user.err = NoError /\ req'[q].extensions = {user.user.id}]_vars
    /\ [][\A q \in DOMAIN req :
            (/\ ClaimedProtected(req'[q].route)
             /\ req[q].pc \in {"idle", "verify_token"} /\ req'[q].pc = "done")
            => ~req'[q].ran /\ req'[q].result # NoError /\ req'[q].extensions = {}]_vars

\* a request on a route of /api/rooms ran its handler with an id in its
\* extensions
C3_Witness ==
    \E q \in DOMAIN req :
        /\ ClaimedProtected(req[q].route) /\ req[q].route.scope = "/api/rooms"
        /\ req[q].ran /\ req[q].extensions # {}

\* the token passes jsonwebtoken's checks at time t
TokenVerifies(token, lw, t) == jwt_verify_token(token, Secret, lw, t).err = NoError

\* no active identity is stored under the token's subject
SubjectGone(usrs, token) ==
    ~\E u \in Rows(usrs) : UuidToString(u.id) = token[2] /\ u.is_active

\* C4: when the gateway verifies a correctly signed, unexpired token whose
\* subject is not stored or is deactivated, it refuses the request with
\* UserNotFound or InvalidToken and the handler is not run.
C4_GoneSubjectRefused ==
    [][\A q \in DOMAIN req :
        (/\ req[q].pc = "verify_token" /\ req'[q].pc # "verify_token"
         /\ TokenVerifies(req[q].token, leeway, now)
         /\ SubjectGone(users, req[q].token))
        => /\ req'[q].pc = "done"
           /\ req'[q].result.kind \in {"UserNotFound", "InvalidToken"}
           /\ ~req'[q].ran /\ req'[q].extensions = {}]_vars

\* a request with a token that still verifies, for an identity deactivated
\* since, has been refused
C4_Witness ==
    \E q \in DOMAIN req :
        /\ req[q].pc = "done" /\ req[q].result.kind = "UserNotFound" /\ ~req[q].ran
        /\ TokenVerifies(req[q].token, leeway, now)
        /\ \E u \in Rows(users) : UuidToString(u.id) = req[q].token[2] /\ ~u.is_active

\* the token has the form and the signature encode gives under the secret
CorrectlySigned(token) ==
    /\ Len(token) = 7 /\ token[1] = JwtHeader
    /\ token[7] = Mac(Secret, SubSeq(token, 1, 6))
    /\ IsStamp(token[3]) /\ IsStamp(token[4])

Expiry(token) == ParseStamp(token[3])

\* what the verification step of request q returned
VerifyStep(q) == req[q].pc = "verify_token" /\ req'[q].pc # "verify_token"
Refused(q, kind) ==
    req'[q].pc = "done" /\ req'[q].result = AppError(kind, "") /\ ~req'[q].ran

\* C7 as stated: every correctly signed token whose expiry is in the past is
\* refused with TokenExpired.
C7_ExpiredInThePast ==
    [][\A q \in DOMAIN req :
        VerifyStep(q) /\ CorrectlySigned(req[q].token) /\ Expiry(req[q].token) < now
        => Refused(q, "TokenExpired")]_vars

\* C7, amended: a correctly signed token whose expiry lies more than the
\* validation's leeway in the past is refused with TokenExpired, a token that
\* is not correctly signed with InvalidToken, and the gateway's refusal is the
\* error verify_token produced.
C7_ExpiredBeyondLeeway ==
    [][\A q \in DOMAIN req :
        VerifyStep(q) =>
            /\ CorrectlySigned(req[q].token) /\ Expiry(req[q].token) < now - leeway
               => Refused(q, "TokenExpired")
            /\ ~CorrectlySigned(req[q].token) => Refused(q, "InvalidToken")
            /\ LET claims == jwt_verify_token(req[q].token, Secret, leeway, now)
               IN  claims.err # NoError => Refused(q, claims.err.kind)]_vars

\* a correctly signed token expired beyond the leeway was refused as expired
C7_Witness ==
    \E q \in DOMAIN req :
        /\ req[q].pc = "done" /\ req[q].result.kind = "TokenExpired"
        /\ CorrectlySigned(req[q].token) /\ Expiry(req[q].token) < now - leeway

-----------------------------------------------------------------------------
(* The functions of the gateway applied to drawn inputs *)

\* runs of whitespace of at most MaxPad characters
Pads == UNION {[1..n -> Whitespace] : n \in 0..MaxPad}

\* the Authorization headers tried: what stands where "Bearer " should, then
\* padding, a token, padding
HeaderPrefixes ==
    {<<>>, Bearer, Bearer \o Bearer, <<" ">> \o Bearer,
     <<"B", "e", "a", "r", "e", "r">>, <<"b", "e", "a", "r", "e", "r", " ">>}
HeaderBodies == {<<>>, <<"x">>, <<"x", " ", "y">>, <<NonAscii>>}
HeaderInputs ==
    {NoHeader} \cup
    {Header(TRUE, pre \o p1 \o body \o p2) :
        pre \in HeaderPrefixes, p1 \in Pads, body \in HeaderBodies, p2 \in Pads}

\* what generate_token is given, and the secret the token is then verified under
RoundTripInputs ==
    [user_id : Uuids, email : Emails, username : Usernames, secret : Secrets,
     expires_in_seconds : 1..MaxTtl, t : 0..MaxTime, verify_secret : Secrets]

\* a handler and the extensions of the request it is called with
HandlerInputs ==
    [handler : {route.handler : route \in Routes},
     extensions : {{}} \cup {{id} : id \in Uuids}]

\* the seeded table with each identity active or deactivated
IdentityStates ==
    {[i \in 1..Len(SeededUsers) |-> [SeededUsers[i] EXCEPT !.is_active = act[i]]] :
        act \in [1..Len(SeededUsers) -> BOOLEAN]}

\* tokens signed under the server's secret, whatever their claims
SignedTokens ==
    {encode(Claims(UuidToString(id), exp, 0, email, username), Secret) :
        id \in Uuids, exp \in 1..MaxTtl, email \in Emails, username \in Usernames}

\* two signed tokens of one subject, a table and a clock reading
TokenPairInputs ==
    {[usrs |-> usrs, t |-> t, token1 |-> pair[1], token2 |-> pair[2]] :
        usrs \in IdentityStates, t \in 0..MaxTime,
        pair \in {pr \in SignedTokens \X SignedTokens : pr[1][2] = pr[2][2]}}

\* constraint names of at most MaxWords words; the empty one is a missing name
ConstraintWords == {"users", "rooms", "email", "username", "name", "key"}
ConstraintNames == UNION {[1..n -> ConstraintWords] : n \in 0..MaxWords}

\* sqlx errors: unique violations, another database error, a missing row
SqlxErrorInputs ==
    {SqlxError("Database", code, c) : code \in {"23505", "23503"}, c \in ConstraintNames}
    \cup {RowNotFound, SqlxError("PoolTimedOut", "", <<>>)}

\* passwords presented, the empty one among them
PasswordInputs == Passwords \cup {""}

\* hash strings a row can hold: what hash_password returns, a string that is
\* no PHC string, the empty string, a PHC string cut after its identifier or
\* after its salt, and the hash of another algorithm
StoredHashes ==
    {hash_password(password, salt) : password \in PasswordInputs, salt \in Salts}
    \cup {<<>>, <<"password1">>, <<"$argon2id">>, <<"$argon2id", "s1">>,
          <<"$pbkdf2-sha256", "s1", Argon2("password1", "s1")>>}

VerifyInputs == [password : PasswordInputs, password_hash : StoredHashes]

\* two draws of a salt from the generator of the system, which are taken
\* never to repeat
OsRngDraws == {draws \in Salts \X Salts : draws[1] # draws[2]}

HashTwiceInputs == [password : PasswordInputs, salts : OsRngDraws]

\* enum AppError: its variants
ErrorKinds ==
    {"MissingToken", "InvalidToken", "InvalidCredentials", "TokenExpired",
     "AccountLocked", "InsufficientPermissions",
     "UserNotFound", "EmailExists", "UsernameExists", "InvalidEmail", "WeakPassword",
     "RoomNotFound", "AlreadyJoined", "NotMember", "RoomFull", "RoomNameExists",
     "PrivateNoAccess", "OwnerRequired",
     "MessageNotFound", "MessageEmpty", "MessageTooLong", "NotMessageOwner",
     "MessageAlreadyDeleted",
     "ValidationError", "MissingField", "InvalidFormat", "InvalidUuid",
     "RateLimitExceeded", "MessageSpam", "LoginAttempts",
     "DatabaseError", "RedisError", "InternalError"}

\* AppError::code, the words of the code between its underscores
AppError_code(kind) ==
    CASE kind = "MissingToken" -> <<"AUTH", "MISSING", "TOKEN">>
      [] kind = "InvalidToken" -> <<"AUTH", "INVALID", "TOKEN">>
      [] kind = "InvalidCredentials" -> <<"AUTH", "INVALID", "CREDENTIALS">>
      [] kind = "TokenExpired" -> <<"AUTH", "TOKEN", "EXPIRED">>
      [] kind = "AccountLocked" -> <<"AUTH", "ACCOUNT", "LOCKED">>
      [] kind = "InsufficientPermissions" -> <<"AUTH", "INSUFFICIENT", "PERMISSIONS">>
      [] kind = "UserNotFound" -> <<"USER", "NOT", "FOUND">>
      [] kind = "EmailExists" -> <<"USER", "EMAIL", "EXISTS">>
      [] kind = "UsernameExists" -> <<"USER", "USERNAME", "EXISTS">>
      [] kind = "InvalidEmail" -> <<"USER", "INVALID", "EMAIL">>
      [] kind = "WeakPassword" -> <<"USER", "WEAK", "PASSWORD">>
      [] kind = "RoomNotFound" -> <<"ROOM", "NOT", "FOUND">>
      [] kind = "AlreadyJoined" -> <<"ROOM", "ALREADY", "JOINED">>
      [] kind = "NotMember" -> <<"ROOM", "NOT", "MEMBER">>
      [] kind = "RoomFull" -> <<"ROOM", "FULL">>
      [] kind = "RoomNameExists" -> <<"ROOM", "NAME", "EXISTS">>
      [] kind = "PrivateNoAccess" -> <<"ROOM", "PRIVATE", "NO", "ACCESS">>
      [] kind = "OwnerRequired" -> <<"ROOM", "OWNER", "REQUIRED">>
      [] kind = "MessageNotFound" -> <<"MESSAGE", "NOT", "FOUND">>
      [] kind = "MessageEmpty" -> <<"MESSAGE", "EMPTY">>
      [] kind = "MessageTooLong" -> <<"MESSAGE", "TOO", "LONG">>
      [] kind = "NotMessageOwner" -> <<"MESSAGE", "NOT", "OWNER">>
      [] kind = "MessageAlreadyDeleted" -> <<"MESSAGE", "ALREADY", "DELETED">>
      [] kind = "ValidationError" -> <<"VALIDATION", "ERROR">>
      [] kind = "MissingField" -> <<"VALIDATION", "MISSING", "FIELD">>
      [] kind = "InvalidFormat" -> <<"VALIDATION", "INVALID", "FORMAT">>
      [] kind = "InvalidUuid" -> <<"VALIDATION", "INVALID", "UUID">>
      [] kind = "RateLimitExceeded" -> <<"RATE", "LIMIT", "EXCEEDED">>
      [] kind = "MessageSpam" -> <<"RATE", "LIMIT", "MESSAGE", "SPAM">>
      [] kind = "LoginAttempts" -> <<"RATE", "LIMIT", "LOGIN", "ATTEMPTS">>
      [] kind = "DatabaseError" -> <<"DATABASE", "ERROR">>
      [] kind = "RedisError" -> <<"REDIS", "ERROR">>
      [] kind = "InternalError" -> <<"INTERNAL", "SERVER", "ERROR">>

\* Faulty variant: the arms of 403 and of 409 folded into 400 Bad Request
AppError_status_code_bad_request(kind) ==
    IF kind \in {"MissingToken", "InvalidToken", "InvalidCredentials", "TokenExpired"}
    THEN 401
    ELSE IF kind \in {"UserNotFound", "RoomNotFound", "MessageNotFound"}
    THEN 404
    ELSE IF kind \in {"ValidationError", "MissingField", "InvalidFormat", "InvalidUuid",
                      "InvalidEmail", "WeakPassword", "MessageEmpty", "MessageTooLong"}
    THEN 422
    ELSE IF kind \in {"RateLimitExceeded", "MessageSpam", "LoginAttempts"}
    THEN 429
    ELSE IF kind \in {"DatabaseError", "RedisError", "InternalError"}
    THEN 500
    ELSE 400

\* AppError::status_code, arm by arm
AppError_status_code(kind) ==
    CASE kind \in {"MissingToken", "InvalidToken", "InvalidCredentials",
                   "TokenExpired"} -> 401
      [] kind \in {"AccountLocked", "InsufficientPermissions", "NotMember",
                   "NotMessageOwner", "PrivateNoAccess", "OwnerRequired"} -> 403
      [] kind \in {"UserNotFound", "RoomNotFound", "MessageNotFound"} -> 404
      [] kind \in {"EmailExists", "UsernameExists", "AlreadyJoined", "RoomFull",
                   "RoomNameExists", "MessageAlreadyDeleted"} -> 409
      [] kind \in {"ValidationError", "MissingField", "InvalidFormat", "InvalidUuid",
                   "InvalidEmail", "WeakPassword", "MessageEmpty",
                   "MessageTooLong"} -> 422
      [] kind \in {"RateLimitExceeded", "MessageSpam", "LoginAttempts"} -> 429
      [] kind \in {"DatabaseError", "RedisError", "InternalError"} -> 500

\* the variants of AppError that carry a value
PayloadKinds ==
    {"ValidationError", "MissingField", "InvalidFormat", "InvalidUuid",
     "DatabaseError", "RedisError", "InternalError"}

\* Faulty variant: the message of a server error is the text it carries
AppError_message_detail(err) ==
    IF err.kind \in {"DatabaseError", "RedisError", "InternalError"}
    THEN <<err.msg>>
    ELSE <<"Request failed">>

\* AppError::message, the text in its parts: fixed text, or fixed text around
\* the field name the error carries
AppError_message(err) ==
    CASE err.kind = "MissingToken" ->
            <<"Authentication token is required">>
      [] err.kind = "InvalidToken" ->
            <<"Invalid or expired authentication token">>
      [] err.kind = "InvalidCredentials" ->
            <<"Invalid email or password">>
      [] err.kind = "TokenExpired" ->
            <<"Authentication token has expired">>
      [] err.kind = "AccountLocked" ->
            <<"Your account has been locked">>
      [] err.kind = "InsufficientPermissions" ->
            <<"You don't have permission to perform this action">>
      [] err.kind = "UserNotFound" ->
            <<"User not found">>
      [] err.kind = "EmailExists" ->
            <<"Email address is already registered">>
      [] err.kind = "UsernameExists" ->
            <<"Username is already taken">>
      [] err.kind = "InvalidEmail" ->
            <<"Invalid email format">>
      [] err.kind = "WeakPassword" ->
            <<"Password does not meet requirements">>
      [] err.kind = "RoomNotFound" ->
            <<"Room not found">>
      [] err.kind = "AlreadyJoined" ->
            <<"You have already joined this room">>
      [] err.kind = "NotMember" ->
            <<"You are not a member of this room">>
      [] err.kind = "RoomFull" ->
            <<"Room has reached maximum capacity">>
      [] err.kind = "RoomNameExists" ->
            <<"Room name is already taken">>
      [] err.kind = "PrivateNoAccess" ->
            <<"This is a private room">>
      [] err.kind = "OwnerRequired" ->
            <<"Only room owner can perform this action">>
      [] err.kind = "MessageNotFound" ->
            <<"Message not found">>
      [] err.kind = "MessageEmpty" ->
            <<"Message content cannot be empty">>
      [] err.kind = "MessageTooLong" ->
            <<"Message exceeds maximum length">>
      [] err.kind = "NotMessageOwner" ->
            <<"You can only edit/delete your own messages">>
      [] err.kind = "MessageAlreadyDeleted" ->
            <<"Message has already been deleted">>
      [] err.kind = "ValidationError" ->
            <<"Input validation failed">>
      [] err.kind = "MissingField" ->
            <<"Required field '", err.msg, "' is missing">>
      [] err.kind = "InvalidFormat" ->
            <<"Invalid format for field '", err.msg, "'">>
      [] err.kind = "InvalidUuid" ->
            <<"Invalid UUID format for field '", err.msg, "'">>
      [] err.kind = "RateLimitExceeded" ->
            <<"Too many requests. Please try again later">>
      [] err.kind = "MessageSpam" ->
            <<"You are sending messages too quickly">>
      [] err.kind = "LoginAttempts" ->
            <<"Too many login attempts. Please try again in 15 minutes">>
      [] err.kind = "DatabaseError" ->
            <<"Database operation failed">>
      [] err.kind = "RedisError" ->
            <<"Cache service error">>
      [] err.kind = "InternalError" ->
            <<"An unexpected error occurred. Please try again later">>

\* AppError::to_response: details are the fields of a ValidationError only
to_response(err, timestamp) ==
    [code |-> AppError_code(err.kind),
     message |-> AppError_message(err),
     details |-> IF err.kind = "ValidationError" THEN {err.msg} ELSE {},
     timestamp |-> timestamp]

\* what two errors of one kind carry, and when each is answered
ErrorDetails == {"pool timed out after 30s", "relation users does not exist"}
ErrorPairInputs ==
    [kind : ErrorKinds, msg1 : ErrorDetails, msg2 : ErrorDetails,
     t1 : 0..MaxTime, t2 : 0..MaxTime]

-----------------------------------------------------------------------------
(* u32 arithmetic, on the four bytes of a value, lowest first *)

Byte == 256
U32Zero == <<0, 0, 0, 0>>
U32Max == <<Byte - 1, Byte - 1, Byte - 1, Byte - 1>>

\* the u32 of a number below 2^31
ToU32(n) ==
    <<n % Byte, (n \div Byte) % Byte, (n \div (Byte * Byte)) % Byte,
      n \div (Byte * Byte * Byte)>>

\* a - 1 in u32 arithmetic: the wrapped bytes, and whether it overflowed
U32SubOne(a) ==
    LET first == CHOOSE i \in 1..5 : (i = 5 \/ a[i] # 0) /\ \A j \in 1..(i - 1) : a[j] = 0
    IN  [value |-> [i \in 1..4 |-> IF i < first THEN Byte - 1
                                   ELSE IF i = first THEN a[i] - 1 ELSE a[i]],
         overflow |-> first = 5]

\* the column k of the schoolbook product: the sum of a[i] * b[j], i + j = k + 1
U32Column(a, b, k) ==
    LET term(i) == IF k + 1 - i \in 1..4 THEN a[i] * b[k + 1 - i] ELSE 0
    IN  term(1) + term(2) + term(3) + term(4)

\* a * b in u32 arithmetic: the low four bytes, and whether higher ones are set
U32Mul(a, b) ==
    LET c1 == U32Column(a, b, 1)
        c2 == U32Column(a, b, 2) + c1 \div Byte
        c3 == U32Column(a, b, 3) + c2 \div Byte
        c4 == U32Column(a, b, 4) + c3 \div Byte
        c5 == U32Column(a, b, 5) + c4 \div Byte
        c6 == U32Column(a, b, 6) + c5 \div Byte
        c7 == U32Column(a, b, 7) + c6 \div Byte
    IN  [value |-> <<c1 % Byte, c2 % Byte, c3 % Byte, c4 % Byte>>,
         overflow |-> c4 \div Byte # 0 \/ c5 # 0 \/ c6 # 0 \/ c7 # 0]

\* a u32 as a number, for a value up to cap; cap + 1 for a larger one
U32Capped(a, cap) ==
    IF a[2] = 0 /\ a[3] = 0 /\ a[4] = 0 /\ a[1] <= cap THEN a[1] ELSE cap + 1

\* whether the build checks integer overflow (a debug profile does, a
\* release profile does not unless told to)
OverflowChecks == BOOLEAN

\* Faulty variant: saturating_sub and saturating_mul
get_rooms_offset_saturating(page, per_page, checked) ==
    LET less == IF page = U32Zero THEN U32Zero ELSE U32SubOne(page).value
        product == U32Mul(less, per_page)
    IN  [panic |-> FALSE,
         value |-> IF product.overflow THEN U32Max ELSE product.value]

\* ((page - 1) * per_page) as i64: a panic of the checked build on overflow,
\* else the wrapped value
get_rooms_offset(page, per_page, checked) ==
    LET less == U32SubOne(page)
        product == U32Mul(less.value, per_page)
    IN  [panic |-> checked /\ (less.overflow \/ product.overflow),
         value |-> product.value]

\* the numbers sent as page and per_page: the defaults and small values, zero,
\* and two whose product does not fit 32 bits
OffsetPages == {0, 1, 2, 3, 65537}
OffsetPerPages == {0, 1, 20, 65536}
OffsetInputs ==
    {[page |-> ToU32(p), per_page |-> ToU32(q), checked |-> c] :
        p \in OffsetPages, q \in OffsetPerPages, c \in OverflowChecks}

PureCall(fn, in) == [fn |-> fn, in |-> in, done |-> FALSE, out |-> "none"]

InitPure ==
    /\ users = SeededUsers
    /\ now = 0
    /\ leeway \in LeewayBuilds
    /\ reg = <<>>
    /\ login = <<>>
    /\ req = <<>>
    /\ NoRoomState
    /\ \/ \E in \in HeaderInputs : pure = PureCall("call_header_stage", in)
       \/ \E in \in RoundTripInputs : pure = PureCall("generate_token", in)
       \/ \E in \in HandlerInputs : pure = PureCall("handler_service", in)
       \/ \E in \in TokenPairInputs : pure = PureCall("call_future", in)
       \/ \E in \in SqlxErrorInputs : pure = PureCall("From_sqlx_Error", in)
       \/ \E in \in VerifyInputs : pure = PureCall("verify_password", in)
       \/ \E in \in ErrorKinds : pure = PureCall("status_code", in)
       \/ \E in \in ErrorPairInputs : pure = PureCall("to_response", in)
       \/ \E in \in HashTwiceInputs : pure = PureCall("hash_password", in)
       \/ \E in \in OffsetInputs : pure = PureCall("get_rooms_offset", in)

Returned(fn, out) ==
    /\ pure.fn = fn /\ ~pure.done
    /\ pure' = [pure EXCEPT !.done = TRUE, !.out = out]
    /\ UNCHANGED <<users, now, leeway, reg, login, req, roomVars>>

apply_call_header_stage ==
    Returned("call_header_stage", call_header_stage(pure.in))

\* a token is generated and verified at the same clock reading
apply_generate_verify ==
    Returned("generate_token",
             jwt_verify_token(generate_token(pure.in.user_id, pure.in.email,
                                             pure.in.username, pure.in.secret,
                                             pure.in.expires_in_seconds, pure.in.t),
                              pure.in.verify_secret, leeway, pure.in.t))

apply_handler_service ==
    Returned("handler_service", handler_service(pure.in.handler, pure.in.extensions))

\* two requests, one with each token, against the same table at the same time
apply_call_future ==
    Returned("call_future",
             <<call_future(pure.in.usrs, pure.in.token1, leeway, pure.in.t),
               call_future(pure.in.usrs, pure.in.token2, leeway, pure.in.t)>>)

apply_From_sqlx_Error ==
    Returned("From_sqlx_Error", From_sqlx_Error(pure.in))

apply_verify_password ==
    Returned("verify_password",
             verify_password(pure.in.password, pure.in.password_hash))

\* hash_password called twice on one password, and each hash verified
apply_hash_password_twice ==
    LET hash1 == hash_password(pure.in.password, pure.in.salts[1])
        hash2 == hash_password(pure.in.password, pure.in.salts[2])
    IN  Returned("hash_password",
                 [hash1 |-> hash1, hash2 |-> hash2,
                  verify1 |-> verify_password(pure.in.password, hash1),
                  verify2 |-> verify_password(pure.in.password, hash2)])

\* ResponseError::error_response: the status and the code of the body
apply_error_response ==
    Returned("status_code", [status |-> AppError_status_code(pure.in),
                             code |-> AppError_code(pure.in)])

\* two errors of one kind, each with the value it carries, are answered
apply_to_response_pair ==
    LET carried(msg) == IF pure.in.kind \in PayloadKinds THEN msg ELSE ""
    IN  Returned("to_response",
                 <<to_response(AppError(pure.in.kind, carried(pure.in.msg1)), pure.in.t1),
                   to_response(AppError(pure.in.kind, carried(pure.in.msg2)), pure.in.t2)>>)

\* the offset of get_rooms for the page and per_page of the query
apply_get_rooms_offset ==
    Returned("get_rooms_offset",
             get_rooms_offset(pure.in.page, pure.in.per_page, pure.in.checked))

NextPure ==
    \/ apply_get_rooms_offset
    \/ apply_From_sqlx_Error
    \/ apply_to_response_pair
    \/ apply_error_response
    \/ apply_verify_password
    \/ apply_hash_password_twice
    \/ apply_call_header_stage
    \/ apply_generate_verify
    \/ apply_handler_service
    \/ apply_call_future

SpecPure == InitPure /\ [][NextPure]_vars

HasReturned(fn) == pure.fn = fn /\ pure.done

\* C5: two tokens that both verify and name the same subject get the same
\* outcome from the gateway whatever email and username they embed, and the id
\* put into the request's extensions is the id of the stored identity of sub.
C5_ClaimsOtherThanSubIgnored ==
    HasReturned("call_future")
    /\ TokenVerifies(pure.in.token1, leeway, pure.in.t)
    /\ TokenVerifies(pure.in.token2, leeway, pure.in.t)
    /\ pure.in.token1[2] = pure.in.token2[2]
    => /\ pure.out[1] = pure.out[2]
       /\ \A i \in 1..2 :
            IF SubjectGone(pure.in.usrs, pure.in.token1)
            THEN pure.out[i].err # NoError /\ pure.out[i].extensions = {}
            ELSE /\ pure.out[i].err = NoError
                 /\ \E u \in Rows(pure.in.usrs) :
                        /\ UuidToString(u.id) = pure.in.token1[2]
                        /\ pure.out[i].extensions = {u.id}

\* two verifying tokens of alice's id, one with alice's email and username and
\* one with bobby's, were both accepted as alice
C5_Witness ==
    /\ HasReturned("call_future")
    /\ pure.in.token1[2] = "1" /\ pure.in.token2[2] = "1"
    /\ pure.in.token1[5] = "a@x.io" /\ pure.in.token1[6] = "alice"
    /\ pure.in.token2[5] = "b@x.io" /\ pure.in.token2[6] = "bobby"
    /\ pure.out[1].err = NoError /\ pure.out[2].err = NoError
    /\ pure.out[2].extensions = {1}

\* the header's text after its first seven characters is whitespace only
EmptyAfterBearer(value) == \A i \in (Len(Bearer) + 1)..Len(value) : value[i] \in Whitespace

\* C6: the gateway refuses a request without Authorization header with
\* MissingToken, one whose header does not begin with "Bearer " with
\* InvalidToken, and one whose header is "Bearer " followed by nothing but
\* whitespace with InvalidToken.
C6_HeaderErrors ==
    HasReturned("call_header_stage") =>
        /\ ~pure.in.present => pure.out.err.kind = "MissingToken"
        /\ pure.in.present /\ ~StartsWith(pure.in.value, Bearer)
           => pure.out.err.kind = "InvalidToken"
        /\ pure.in.present /\ StartsWith(pure.in.value, Bearer)
           /\ EmptyAfterBearer(pure.in.value)
           => pure.out.err.kind = "InvalidToken"

\* the header "Bearer " followed by two blanks was refused as an invalid token
C6_Witness ==
    /\ HasReturned("call_header_stage")
    /\ pure.in = Header(TRUE, Bearer \o <<" ", " ">>)
    /\ pure.out.err.kind = "InvalidToken"

\* C8: a token generated for an identity with a positive lifetime verifies at
\* once under the same secret, with sub, email and username those of the
\* identity; under a different secret it does not verify.
C8_RoundTrip ==
    HasReturned("generate_token") =>
        IF pure.in.verify_secret = pure.in.secret
        THEN /\ pure.out.err = NoError
             /\ pure.out.claims.sub = UuidToString(pure.in.user_id)
             /\ pure.out.claims.email = pure.in.email
             /\ pure.out.claims.username = pure.in.username
        ELSE pure.out.err # NoError

\* a token generated under one secret was refused under another
C8_Witness ==
    /\ HasReturned("generate_token")
    /\ pure.in.secret = Secret /\ pure.in.verify_secret # Secret
    /\ pure.out.err.kind = "InvalidToken"

\* C9: a handler that takes AuthUser, called with no id in the request's
\* extensions, fails with Unauthorized and its body does not run; called with
\* an id there, its body runs with exactly that id.
C9_ExtractorFailsClosed ==
    HasReturned("handler_service") /\ pure.in.handler \in AuthUserHandlers =>
        /\ pure.in.extensions = {}
           => pure.out.err.kind = "Unauthorized" /\ ~pure.out.ran
        /\ \A id \in pure.in.extensions :
              pure.out.err = NoError /\ pure.out.ran /\ pure.out.auth_user = id

\* get_me was called with empty extensions and refused
C9_Witness ==
    /\ HasReturned("handler_service")
    /\ pure.in.handler = "get_me" /\ pure.in.extensions = {}
    /\ pure.out.err.kind = "Unauthorized" /\ ~pure.out.ran

-----------------------------------------------------------------------------
(* Sessions: logins, then requests through the gateway with the tokens *)

SessionLoginProcs == {"l1"}

InitSession ==
    /\ users = SeededUsers
    /\ now = 0
    /\ leeway \in LeewayBuilds
    /\ reg = <<>>
    /\ login = [p \in LoginProcs |-> LoginIdle]
    /\ req = [q \in ReqIds |-> ReqIdle]
    /\ pure = NoPure
    /\ NoRoomState

NextSession ==
    \/ \E p \in SessionLoginProcs : login_find_by_email(p)
    \/ \E p \in SessionLoginProcs : login_update_status(p)
    \/ \E q \in ReqIds : call(q)
    \/ \E q \in ReqIds : call_verify_token(q)
    \/ \E q \in ReqIds : service_call(q)
    \/ \E q \in ReqIds : respond(q)
    \/ \E id \in UserIds(users) : Deactivate(id)
    \/ Tick

SpecSession == InitSession /\ [][NextSession]_vars

\* C12: a logout sets the caller's presence to offline and changes nothing
\* else; a correctly signed token not yet past its expiry, of a stored and
\* active identity, is accepted by the gateway whenever it is verified, after
\* a logout as before.
C12_LogoutRevokesNothing ==
    [][\A q \in DOMAIN req :
        /\ (/\ req[q].pc = "service_call" /\ req[q].route.handler = "logout"
            /\ req'[q].pc = "done" /\ req'[q].ran)
           => /\ req'[q].result = NoError
              /\ \A i \in 1..Len(users) :
                    users'[i] = IF users[i].id = req'[q].auth_user /\ users[i].is_active
                                THEN [users[i] EXCEPT !.status = "offline"]
                                ELSE users[i]
        /\ (/\ VerifyStep(q) /\ CorrectlySigned(req[q].token)
            /\ now <= Expiry(req[q].token)
            /\ ~SubjectGone(users, req[q].token))
           => /\ req'[q].pc = "service_call"
              /\ \E u \in Rows(users) :
                    /\ UuidToString(u.id) = req[q].token[2]
                    /\ req'[q].extensions = {u.id}]_vars

\* the token a login returned was accepted on /api/auth/me while the identity,
\* set online by that login, reads offline: a logout came in between
C12_Witness ==
    \E p \in LoginProcs, q \in DOMAIN req :
        /\ login[p].pc = "done" /\ login[p].result = NoError
        /\ req[q].token = login[p].token
        /\ req[q].route.handler = "get_me" /\ req[q].pc = "done"
        /\ req[q].ran /\ req[q].result = NoError
        /\ \E u \in Rows(users) :
              u.id = login[p].user.id /\ u.is_active /\ u.status = "offline"

-----------------------------------------------------------------------------
(* Properties of the error translation *)

HasWord(name, word) == word \in {name[i] : i \in DOMAIN name}

\* C14: a unique violation (code 23505) becomes EmailExists when the
\* constraint's name contains "email", else UsernameExists when it contains
\* "username", else (any other name, or none) EmailExists; the result depends
\* on the name alone.
C14_ConstraintNameDecides ==
    HasReturned("From_sqlx_Error") /\ pure.in.type = "Database" /\ pure.in.code = "23505"
    => /\ HasWord(pure.in.constraint, "email") => pure.out = AppError("EmailExists", "")
       /\ ~HasWord(pure.in.constraint, "email") /\ HasWord(pure.in.constraint, "username")
          => pure.out = AppError("UsernameExists", "")
       /\ ~HasWord(pure.in.constraint, "email") /\ ~HasWord(pure.in.constraint, "username")
          => pure.out = AppError("EmailExists", "")

\* a unique violation of a constraint named after both fields was translated
\* to EmailExists
C14_Witness ==
    /\ HasReturned("From_sqlx_Error")
    /\ pure.in = SqlxError("Database", "23505", <<"username", "email">>)
    /\ pure.out = AppError("EmailExists", "")

-----------------------------------------------------------------------------
(* Tables rooms and room_members (repositories/room_repo.rs, models/room.rs) *)

\* Option<T>: the empty set is None, {v} is Some(v)
None == {}
Some(v) == {v}
Unwrap(option) == CHOOSE v \in option : TRUE

Room(id, name, description, room_type, owner_id, max_members) ==
    [id |-> id, name |-> name, description |-> description,
     room_type |-> room_type, owner_id |-> owner_id, max_members |-> max_members]
NoRoom == Room(0, "", None, "", 0, None)

RoomMember(room_id, user_id, role) ==
    [room_id |-> room_id, user_id |-> user_id, role |-> role]

RoomRows(rms) == {rms[i] : i \in 1..Len(rms)}

\* the values of the enum types room_type and member_role
RoomTypes == {"public", "private"}
MemberRoles == {"owner", "admin", "moderator", "member"}

\* SQL LOWER on the room names used
Lower(name) ==
    IF name = "General" THEN "general"
    ELSE IF name = "Lobby" THEN "lobby"
    ELSE name

\* the constraints of the two tables, by name: rooms unique on LOWER(name),
\* room_members unique on (room_id, user_id), and room_members.room_id a
\* reference to rooms(id) with ON DELETE CASCADE
RoomsNameKey == <<"rooms", "name", "key">>
RoomMembersKey == <<"room", "members", "room", "user", "key">>
RoomMembersRoomFkey == <<"room", "members", "room", "fkey">>

\* Faulty variant: a table rooms declared without its unique constraint
RoomNameTaken_none(rms, name, except_id) == FALSE

\* a row other than except_id has the name, ignoring case
RoomNameTaken(rms, name, except_id) ==
    \E r \in RoomRows(rms) : r.id # except_id /\ Lower(r.name) = Lower(name)

\* Faulty variant: a table room_members declared without its unique constraint
MembershipTaken_none(mems, room_id, user_id) == FALSE

\* the pair (room_id, user_id) has a row
MembershipTaken(mems, room_id, user_id) ==
    \E m \in mems : m.room_id = room_id /\ m.user_id = user_id

RoomResult(err, rms, room) == [err |-> err, rooms |-> rms, room |-> room]

\* a statement failed because a text is no value of the enum it is cast to
InvalidEnumText == SqlxError("Database", "22P02", <<>>)

\* Faulty variant: the INSERT without its max_members column
RoomRepository_create_unbounded(rms, id, dto, owner_id) ==
    IF dto.room_type \notin RoomTypes
    THEN RoomResult(From_sqlx_Error(InvalidEnumText), rms, NoRoom)
    ELSE IF RoomNameTaken(rms, dto.name, 0)
    THEN RoomResult(From_sqlx_Error(SqlxError("Database", "23505", RoomsNameKey)),
                    rms, NoRoom)
    ELSE LET room == Room(id, dto.name, dto.description, dto.room_type, owner_id, None)
         IN  RoomResult(NoError, Append(rms, room), room)

\* RoomRepository::create: the INSERT with id as the generated id
RoomRepository_create(rms, id, dto, owner_id) ==
    IF dto.room_type \notin RoomTypes
    THEN RoomResult(From_sqlx_Error(InvalidEnumText), rms, NoRoom)
    ELSE IF RoomNameTaken(rms, dto.name, 0)
    THEN RoomResult(From_sqlx_Error(SqlxError("Database", "23505", RoomsNameKey)),
                    rms, NoRoom)
    ELSE LET room == Room(id, dto.name, dto.description, dto.room_type, owner_id,
                          dto.max_members)
         IN  RoomResult(NoError, Append(rms, room), room)

\* RoomRepository::find_by_id
RoomRepository_find_by_id(rms, room_id) ==
    IF \E r \in RoomRows(rms) : r.id = room_id
    THEN RoomResult(NoError, rms, CHOOSE r \in RoomRows(rms) : r.id = room_id)
    ELSE RoomResult(AppError("RoomNotFound", ""), rms, NoRoom)

\* a field after SET: the new value if the patch has one
Patched(option, old) == IF option = None THEN old ELSE Unwrap(option)

\* Faulty variant: a SET of the four columns, those absent from the patch to NULL
RoomRepository_update_all_columns(rms, room_id, updates) ==
    IF ~\E r \in RoomRows(rms) : r.id = room_id
    THEN RoomResult(From_sqlx_Error(RowNotFound), rms, NoRoom)
    ELSE LET old == CHOOSE r \in RoomRows(rms) : r.id = room_id
             new == Room(old.id, Patched(updates.name, old.name), updates.description,
                         Patched(updates.room_type, old.room_type), old.owner_id,
                         updates.max_members)
         IN  RoomResult(NoError,
                        [i \in 1..Len(rms) |-> IF rms[i].id = room_id THEN new ELSE rms[i]],
                        new)

\* RoomRepository::update
RoomRepository_update(rms, room_id, updates) ==
    IF /\ updates.name = None /\ updates.description = None
       /\ updates.room_type = None /\ updates.max_members = None
    THEN RoomRepository_find_by_id(rms, room_id)
    ELSE IF updates.room_type # None /\ Unwrap(updates.room_type) \notin RoomTypes
    THEN RoomResult(From_sqlx_Error(InvalidEnumText), rms, NoRoom)
    ELSE IF ~\E r \in RoomRows(rms) : r.id = room_id
    THEN RoomResult(From_sqlx_Error(RowNotFound), rms, NoRoom)
    ELSE IF updates.name # None /\ RoomNameTaken(rms, Unwrap(updates.name), room_id)
    THEN RoomResult(From_sqlx_Error(SqlxError("Database", "23505", RoomsNameKey)),
                    rms, NoRoom)
    ELSE LET old == CHOOSE r \in RoomRows(rms) : r.id = room_id
             new == Room(old.id, Patched(updates.name, old.name),
                         IF updates.description = None THEN old.description
                         ELSE updates.description,
                         Patched(updates.room_type, old.room_type), old.owner_id,
                         IF updates.max_members = None THEN old.max_members
                         ELSE updates.max_members)
         IN  RoomResult(NoError,
                        [i \in 1..Len(rms) |-> IF rms[i].id = room_id THEN new ELSE rms[i]],
                        new)

\* what a statement on both tables leaves: the error, rooms, room_members
StoreResult(err, rms, mems) == [err |-> err, rooms |-> rms, room_members |-> mems]

\* the rows of rooms other than room_id's, in their order
RECURSIVE SelectRooms(_, _)
SelectRooms(rms, room_id) ==
    IF rms = <<>> THEN <<>>
    ELSE IF Head(rms).id = room_id THEN SelectRooms(Tail(rms), room_id)
    ELSE <<Head(rms)>> \o SelectRooms(Tail(rms), room_id)

\* Faulty variant: the DELETE leaves the rows of room_members
RoomRepository_delete_no_cascade(rms, mems, room_id) ==
    IF ~\E r \in RoomRows(rms) : r.id = room_id
    THEN StoreResult(AppError("RoomNotFound", ""), rms, mems)
    ELSE StoreResult(NoError, SelectRooms(rms, room_id), mems)

\* RoomRepository::delete: the DELETE, which cascades to room_members
RoomRepository_delete(rms, mems, room_id) ==
    IF ~\E r \in RoomRows(rms) : r.id = room_id
    THEN StoreResult(AppError("RoomNotFound", ""), rms, mems)
    ELSE StoreResult(NoError, SelectRooms(rms, room_id),
                     {m \in mems : m.room_id # room_id})

\* Faulty variant: INSERT .. ON CONFLICT (room_id, user_id) DO UPDATE SET role
RoomRepository_add_member_upsert(rms, mems, room_id, user_id, role) ==
    IF role \notin MemberRoles
    THEN StoreResult(From_sqlx_Error(InvalidEnumText), rms, mems)
    ELSE IF ~\E r \in RoomRows(rms) : r.id = room_id
    THEN StoreResult(From_sqlx_Error(SqlxError("Database", "23503",
                                               RoomMembersRoomFkey)), rms, mems)
    ELSE StoreResult(NoError, rms,
                     {m \in mems : ~(m.room_id = room_id /\ m.user_id = user_id)}
                        \cup {RoomMember(room_id, user_id, role)})

\* RoomRepository::add_member
RoomRepository_add_member(rms, mems, room_id, user_id, role) ==
    IF role \notin MemberRoles
    THEN StoreResult(From_sqlx_Error(InvalidEnumText), rms, mems)
    ELSE IF ~\E r \in RoomRows(rms) : r.id = room_id
    THEN StoreResult(From_sqlx_Error(SqlxError("Database", "23503",
                                               RoomMembersRoomFkey)), rms, mems)
    ELSE IF MembershipTaken(mems, room_id, user_id)
    THEN StoreResult(From_sqlx_Error(SqlxError("Database", "23505", RoomMembersKey)),
                     rms, mems)
    ELSE StoreResult(NoError, rms, mems \cup {RoomMember(room_id, user_id, role)})

\* Faulty variant: the DELETE without "AND user_id = $2"
RoomRepository_remove_member_all(rms, mems, room_id, user_id) ==
    LET gone == {m \in mems : m.room_id = room_id}
    IN  IF gone = {}
        THEN StoreResult(AppError("NotMember", ""), rms, mems)
        ELSE StoreResult(NoError, rms, mems \ gone)

\* RoomRepository::remove_member
RoomRepository_remove_member(rms, mems, room_id, user_id) ==
    LET gone == {m \in mems : m.room_id = room_id /\ m.user_id = user_id}
    IN  IF gone = {}
        THEN StoreResult(AppError("NotMember", ""), rms, mems)
        ELSE StoreResult(NoError, rms, mems \ gone)

\* RoomRepository::get_members: the rows of the room
RoomRepository_get_members(mems, room_id) == {m \in mems : m.room_id = room_id}

\* count_members counting the owners only
RoomRepository_count_members_owners(mbrs, room_id) ==
    Cardinality({m \in mbrs : m.room_id = room_id /\ m.role = "owner"})

\* RoomRepository::count_members
RoomRepository_count_members(mems, room_id) ==
    Cardinality({m \in mems : m.room_id = room_id})

\* Faulty variant: the query sees rows of role member only
RoomRepository_is_member_plain(mems, room_id, user_id) ==
    \E m \in mems : m.room_id = room_id /\ m.user_id = user_id /\ m.role = "member"

\* RoomRepository::is_member
RoomRepository_is_member(mems, room_id, user_id) ==
    \E m \in mems : m.room_id = room_id /\ m.user_id = user_id

\* RoomRepository::get_user_role
RoomRepository_get_user_role(mems, room_id, user_id) ==
    {m.role : m \in {n \in mems : n.room_id = room_id /\ n.user_id = user_id}}

\* Faulty variant: the comparison without LOWER
RoomRepository_name_exists_exact(rms, name) ==
    \E r \in RoomRows(rms) : r.name = name

\* RoomRepository::name_exists
RoomRepository_name_exists(rms, name) ==
    \E r \in RoomRows(rms) : Lower(r.name) = Lower(name)

\* struct RoomResponse: the row of rooms with its member_count
RoomResponse(room, member_count) ==
    [id |-> room.id, name |-> room.name, description |-> room.description,
     room_type |-> room.room_type, owner_id |-> room.owner_id,
     max_members |-> room.max_members, member_count |-> member_count]

\* ORDER BY r.created_at DESC: the rows, last created first
RECURSIVE NewestFirst(_)
NewestFirst(rms) ==
    IF rms = <<>> THEN <<>>
    ELSE <<rms[Len(rms)]>> \o NewestFirst(SubSeq(rms, 1, Len(rms) - 1))

\* the rows after OFFSET offset, at most limit of them
Page(rows, offset, limit) ==
    SubSeq(rows, offset + 1,
           IF offset + limit < Len(rows) THEN offset + limit ELSE Len(rows))

\* RoomRepository::list_rooms: the rows of rooms, whoever asks, each with the
\* count of its memberships; one page of them
RoomRepository_list_rooms(rms, mems, offset, limit) ==
    Page([i \in 1..Len(rms) |->
            RoomResponse(NewestFirst(rms)[i],
                         Cardinality({m \in mems : m.room_id = NewestFirst(rms)[i].id}))],
         offset, limit)

\* RoomRepository::count_rooms: the rooms that are public or hold the user
RoomRepository_count_rooms(rms, mems, user_id) ==
    Cardinality({r \in RoomRows(rms) :
                    \/ r.room_type = "public"
                    \/ \E m \in mems : m.room_id = r.id /\ m.user_id = user_id})

-----------------------------------------------------------------------------
(* RoomService (services/room_service.rs), one step per statement on the store *)

CreateRoomDto(name, description, room_type, max_members) ==
    [name |-> name, description |-> description, room_type |-> room_type,
     max_members |-> max_members]
NoCreateRoomDto == CreateRoomDto("", None, "", None)

UpdateRoomDto(name, description, room_type, max_members) ==
    [name |-> name, description |-> description, room_type |-> room_type,
     max_members |-> max_members]
NoUpdateRoomDto == UpdateRoomDto(None, None, None, None)

MinRoomName == 3
MaxRoomName == 100
MinMaxMembers == 2
MaxMaxMembers == 1000

\* CreateRoomDto::validate; the descriptions used are within their 500 characters
validate_CreateRoomDto(dto) ==
    /\ Len(dto.name) >= MinRoomName /\ Len(dto.name) <= MaxRoomName
    /\ \A m \in dto.max_members : m >= MinMaxMembers /\ m <= MaxMaxMembers

\* UpdateRoomDto::validate
validate_UpdateRoomDto(dto) ==
    /\ \A n \in dto.name : Len(n) >= MinRoomName /\ Len(n) <= MaxRoomName
    /\ \A m \in dto.max_members : m >= MinMaxMembers /\ m <= MaxMaxMembers

\* the bodies sent to POST /api/rooms and PUT /api/rooms/{id}
CreateRoomInputs ==
    {CreateRoomDto("general", None, "public", Some(2)),
     CreateRoomDto("General", Some("d"), "public", None),
     CreateRoomDto("lobby", None, "private", None),
     CreateRoomDto("ab", None, "public", None),
     CreateRoomDto("lobby", None, "public", Some(1))}
UpdateRoomInputs ==
    {NoUpdateRoomDto,
     UpdateRoomDto(Some("Lobby"), None, None, None),
     UpdateRoomDto(None, Some("d"), Some("private"), None),
     UpdateRoomDto(None, None, None, Some(2)),
     UpdateRoomDto(Some("ab"), None, None, None)}

RoomProcs == {"p1", "p2"}

\* the room ids a path names: those generated so far and the next one
RoomIds == 1..(room_seq + 1)

\* a RoomService call: the operation, where it stands, the caller, the path's
\* room id, the body, the row find_by_id or create returned, and what the
\* call returned (the error, and the member count of the response)
RopIdle == [op |-> "", pc |-> "idle", user_id |-> 0, room_id |-> 0,
            dto |-> NoCreateRoomDto, updates |-> NoUpdateRoomDto, room |-> NoRoom,
            result |-> NoError, member_count |-> 0,
            is_member |-> FALSE, members |-> {}, user_role |-> None,
            page |-> U32Zero, per_page |-> U32Zero, items |-> <<>>, total |-> 0]

authVars == <<users, now, leeway, reg, login, req, pure>>

\* the call of p returns
Return(p, started, error) ==
    rop' = [rop EXCEPT ![p] = [started EXCEPT !.pc = "done", !.result = error]]

\* create_room up to the end of its first statement: validate, name_exists
create_room_name_exists(p) ==
    /\ rop[p].pc = "idle"
    /\ \E user_id \in UserIds(users), dto \in CreateRoomInputs :
        LET started == [RopIdle EXCEPT !.op = "create_room", !.user_id = user_id,
                                       !.dto = dto]
        IN  IF ~validate_CreateRoomDto(dto)
            THEN Return(p, started, AppError("ValidationError", "Invalid room data"))
            ELSE IF RoomRepository_name_exists(rooms, dto.name)
            THEN Return(p, started, AppError("RoomNameExists", ""))
            ELSE rop' = [rop EXCEPT ![p] = [started EXCEPT !.pc = "create"]]
    /\ UNCHANGED <<authVars, rooms, room_members, room_seq>>

\* create_room's second statement: RoomRepository::create
create_room_create(p) ==
    /\ rop[p].op = "create_room" /\ rop[p].pc = "create"
    /\ LET out == RoomRepository_create(rooms, room_seq + 1, rop[p].dto, rop[p].user_id)
       IN  IF out.err # NoError
           THEN Return(p, rop[p], out.err) /\ UNCHANGED <<rooms, room_seq>>
           ELSE /\ rooms' = out.rooms
                /\ room_seq' = room_seq + 1
                /\ rop' = [rop EXCEPT ![p].pc = "add_member", ![p].room = out.room,
                                      ![p].room_id = out.room.id]
    /\ UNCHANGED <<authVars, room_members>>

\* create_room's third statement: add_member(room.id, owner_id, "owner")
create_room_add_member(p) ==
    /\ rop[p].op = "create_room" /\ rop[p].pc = "add_member"
    /\ LET out == RoomRepository_add_member(rooms, room_members, rop[p].room.id,
                                            rop[p].user_id, "owner")
       IN  IF out.err # NoError
           THEN Return(p, rop[p], out.err) /\ UNCHANGED room_members
           ELSE /\ room_members' = out.room_members
                /\ rop' = [rop EXCEPT ![p].pc = "count_members"]
    /\ UNCHANGED <<authVars, rooms, room_seq>>

\* create_room's last statement: count_members, then the response
create_room_count_members(p) ==
    /\ rop[p].op = "create_room" /\ rop[p].pc = "count_members"
    /\ rop' = [rop EXCEPT ![p].pc = "done",
                 ![p].member_count = RoomRepository_count_members(room_members,
                                                                  rop[p].room.id)]
    /\ UNCHANGED <<authVars, rooms, room_members, room_seq>>

\* the first statement of update_room, delete_room, join_room and leave_room:
\* find_by_id (update_room validates its body before it)
find_by_id_first(p, op, next) ==
    /\ rop[p].pc = "idle"
    /\ \E user_id \in UserIds(users), room_id \in RoomIds,
          updates \in IF op = "update_room" THEN UpdateRoomInputs ELSE {NoUpdateRoomDto} :
        LET started == [RopIdle EXCEPT !.op = op, !.user_id = user_id,
                                       !.room_id = room_id, !.updates = updates]
            found == RoomRepository_find_by_id(rooms, room_id)
        IN  IF ~validate_UpdateRoomDto(updates)
            THEN Return(p, started, AppError("ValidationError", "Invalid room data"))
            ELSE IF found.err # NoError
            THEN Return(p, started, found.err)
            ELSE rop' = [rop EXCEPT ![p] = [started EXCEPT !.pc = next,
                                                           !.room = found.room]]
    /\ UNCHANGED <<authVars, rooms, room_members, room_seq>>

update_room_find_by_id(p) == find_by_id_first(p, "update_room", "get_user_role")

\* Faulty variant: every member may update
CanUpdate_any_member(role) == role # None

\* match role.as_deref() { Some("owner") | Some("admin") => .., _ => .. }
CanUpdate(role) == role = Some("owner") \/ role = Some("admin")

\* update_room's second statement: get_user_role, then the match on the role
update_room_get_user_role(p) ==
    /\ rop[p].op = "update_room" /\ rop[p].pc = "get_user_role"
    /\ LET role == RoomRepository_get_user_role(room_members, rop[p].room_id,
                                                rop[p].user_id)
       IN  IF CanUpdate(role)
           THEN rop' = [rop EXCEPT ![p].pc = "update"]
           ELSE Return(p, rop[p], AppError("InsufficientPermissions", ""))
    /\ UNCHANGED <<authVars, rooms, room_members, room_seq>>

\* update_room's third statement: RoomRepository::update
update_room_update(p) ==
    /\ rop[p].op = "update_room" /\ rop[p].pc = "update"
    /\ LET out == RoomRepository_update(rooms, rop[p].room_id, rop[p].updates)
       IN  IF out.err # NoError
           THEN Return(p, rop[p], out.err) /\ UNCHANGED rooms
           ELSE /\ rooms' = out.rooms
                /\ rop' = [rop EXCEPT ![p].pc = "count_members", ![p].room = out.room]
    /\ UNCHANGED <<authVars, room_members, room_seq>>

\* update_room's last statement: count_members, then the response
update_room_count_members(p) ==
    /\ rop[p].op = "update_room" /\ rop[p].pc = "count_members"
    /\ rop' = [rop EXCEPT ![p].pc = "done",
                 ![p].member_count = RoomRepository_count_members(room_members,
                                                                  rop[p].room_id)]
    /\ UNCHANGED <<authVars, rooms, room_members, room_seq>>

delete_room_find_by_id(p) == find_by_id_first(p, "delete_room", "get_user_role")

\* Faulty variant: an admin may delete as well
IsOwner_or_admin(role) == role = Some("owner") \/ role = Some("admin")

\* role.as_deref() == Some("owner")
IsOwner(role) == role = Some("owner")

\* delete_room's second statement: get_user_role, then the test of the role
delete_room_get_user_role(p) ==
    /\ rop[p].op = "delete_room" /\ rop[p].pc = "get_user_role"
    /\ LET role == RoomRepository_get_user_role(room_members, rop[p].room_id,
                                                rop[p].user_id)
       IN  IF ~IsOwner(role)
           THEN Return(p, rop[p], AppError("OwnerRequired", ""))
           ELSE rop' = [rop EXCEPT ![p].pc = "delete"]
    /\ UNCHANGED <<authVars, rooms, room_members, room_seq>>

\* delete_room's last statement: RoomRepository::delete
delete_room_delete(p) ==
    /\ rop[p].op = "delete_room" /\ rop[p].pc = "delete"
    /\ LET out == RoomRepository_delete(rooms, room_members, rop[p].room_id)
       IN  /\ Return(p, rop[p], out.err)
           /\ rooms' = out.rooms
           /\ room_members' = out.room_members
    /\ UNCHANGED <<authVars, room_seq>>

leave_room_find_by_id(p) == find_by_id_first(p, "leave_room", "get_user_role")

\* Faulty variant: the membership is removed before the role is tested
leave_room_remove_first(p) ==
    /\ rop[p].op = "leave_room" /\ rop[p].pc = "get_user_role"
    /\ LET role == RoomRepository_get_user_role(room_members, rop[p].room_id,
                                                rop[p].user_id)
           out == RoomRepository_remove_member(rooms, room_members, rop[p].room_id,
                                               rop[p].user_id)
       IN  /\ room_members' = out.room_members
           /\ IF IsOwner(role)
              THEN Return(p, rop[p], AppError("OwnerRequired", ""))
              ELSE Return(p, rop[p], out.err)
    /\ UNCHANGED <<authVars, rooms, room_seq>>

\* leave_room's second statement: get_user_role, then the test of the role
leave_room_get_user_role(p) ==
    /\ rop[p].op = "leave_room" /\ rop[p].pc = "get_user_role"
    /\ LET role == RoomRepository_get_user_role(room_members, rop[p].room_id,
                                                rop[p].user_id)
       IN  IF IsOwner(role)
           THEN Return(p, rop[p], AppError("OwnerRequired", ""))
           ELSE rop' = [rop EXCEPT ![p].pc = "remove_member"]
    /\ UNCHANGED <<authVars, rooms, room_members, room_seq>>

\* leave_room's last statement: remove_member
leave_room_remove_member(p) ==
    /\ rop[p].op = "leave_room" /\ rop[p].pc = "remove_member"
    /\ LET out == RoomRepository_remove_member(rooms, room_members, rop[p].room_id,
                                               rop[p].user_id)
       IN  /\ Return(p, rop[p], out.err)
           /\ room_members' = out.room_members
    /\ UNCHANGED <<authVars, rooms, room_seq>>

join_room_find_by_id(p) == find_by_id_first(p, "join_room", "is_member")

\* join_room after its statements on the membership and the count: the test
\* of the room type, on the row find_by_id returned
join_room_private_check(p) ==
    IF rop[p].room.room_type = "private"
    THEN Return(p, rop[p], AppError("PrivateNoAccess", ""))
    ELSE rop' = [rop EXCEPT ![p].pc = "add_member"]

\* join_room's second statement: is_member
join_room_is_member(p) ==
    /\ rop[p].op = "join_room" /\ rop[p].pc = "is_member"
    /\ IF RoomRepository_is_member(room_members, rop[p].room_id, rop[p].user_id)
       THEN Return(p, rop[p], AppError("AlreadyJoined", ""))
       ELSE IF rop[p].room.max_members # None
       THEN rop' = [rop EXCEPT ![p].pc = "count_members"]
       ELSE join_room_private_check(p)
    /\ UNCHANGED <<authVars, rooms, room_members, room_seq>>

\* join_room's third statement, when max_members is set: count_members
join_room_count_members(p) ==
    /\ rop[p].op = "join_room" /\ rop[p].pc = "count_members"
    /\ IF RoomRepository_count_members(room_members, rop[p].room_id)
            >= Unwrap(rop[p].room.max_members)
       THEN Return(p, rop[p], AppError("RoomFull", ""))
       ELSE join_room_private_check(p)
    /\ UNCHANGED <<authVars, rooms, room_members, room_seq>>

\* join_room's fourth statement: add_member(room_id, user_id, "member")
join_room_add_member(p) ==
    /\ rop[p].op = "join_room" /\ rop[p].pc = "add_member"
    /\ LET out == RoomRepository_add_member(rooms, room_members, rop[p].room_id,
                                            rop[p].user_id, "member")
       IN  IF out.err # NoError
           THEN Return(p, rop[p], out.err) /\ UNCHANGED room_members
           ELSE /\ room_members' = out.room_members
                /\ rop' = [rop EXCEPT ![p].pc = "get_members"]
    /\ UNCHANGED <<authVars, rooms, room_seq>>

\* join_room's last statement: get_members, and the caller's row among them
join_room_get_members(p) ==
    /\ rop[p].op = "join_room" /\ rop[p].pc = "get_members"
    /\ LET members == RoomRepository_get_members(room_members, rop[p].room_id)
       IN  IF \E m \in members : m.user_id = rop[p].user_id
           THEN rop' = [rop EXCEPT ![p].pc = "done",
                                   ![p].member_count = Cardinality(members)]
           ELSE Return(p, rop[p],
                       AppError("InternalError", "Failed to retrieve member info"))
    /\ UNCHANGED <<authVars, rooms, room_members, room_seq>>

get_room_find_by_id(p) == find_by_id_first(p, "get_room", "is_member")

\* Faulty variant: every caller may read a private room
MayRead_any(room, is_member) == TRUE

\* the test both reads make: room.room_type == "private" && !is_member
MayRead(room, is_member) == ~(room.room_type = "private" /\ ~is_member)

\* second statement of get_room and of get_members: is_member, then the test
\* of the room type on the row find_by_id returned
read_is_member(p, op) ==
    /\ rop[p].op = op /\ rop[p].pc = "is_member"
    /\ LET is_member == RoomRepository_is_member(room_members, rop[p].room_id,
                                                 rop[p].user_id)
       IN  IF ~MayRead(rop[p].room, is_member)
           THEN Return(p, [rop[p] EXCEPT !.is_member = is_member],
                       AppError("PrivateNoAccess", ""))
           ELSE rop' = [rop EXCEPT ![p].pc = "get_members",
                                   ![p].is_member = is_member]
    /\ UNCHANGED <<authVars, rooms, room_members, room_seq>>

get_room_is_member(p) == read_is_member(p, "get_room")

\* get_room's third statement: get_members; member_count is members.len()
get_room_get_members(p) ==
    /\ rop[p].op = "get_room" /\ rop[p].pc = "get_members"
    /\ LET members == RoomRepository_get_members(room_members, rop[p].room_id)
       IN  rop' = [rop EXCEPT ![p].pc = "get_user_role", ![p].members = members,
                              ![p].member_count = Cardinality(members)]
    /\ UNCHANGED <<authVars, rooms, room_members, room_seq>>

\* get_room's last statement: get_user_role
get_room_get_user_role(p) ==
    /\ rop[p].op = "get_room" /\ rop[p].pc = "get_user_role"
    /\ rop' = [rop EXCEPT ![p].pc = "done",
                          ![p].user_role = RoomRepository_get_user_role(
                                room_members, rop[p].room_id, rop[p].user_id)]
    /\ UNCHANGED <<authVars, rooms, room_members, room_seq>>

get_members_find_by_id(p) == find_by_id_first(p, "get_members", "is_member")

get_members_is_member(p) == read_is_member(p, "get_members")

\* get_members' last statement: get_members
get_members_get_members(p) ==
    /\ rop[p].op = "get_members" /\ rop[p].pc = "get_members"
    /\ rop' = [rop EXCEPT ![p].pc = "done",
                          ![p].members = RoomRepository_get_members(
                                room_members, rop[p].room_id)]
    /\ UNCHANGED <<authVars, rooms, room_members, room_seq>>

\* the page and per_page of the requests sent
ListPages == {ToU32(0), ToU32(1), ToU32(2)}
ListPerPages == {ToU32(1), ToU32(20)}

\* get_rooms up to the end of its first statement: the offset, then list_rooms;
\* a panic ends the request without a response of the service
get_rooms_list_rooms(p) ==
    /\ rop[p].pc = "idle"
    /\ \E user_id \in UserIds(users), page \in ListPages, per_page \in ListPerPages,
          checked \in OverflowChecks :
        LET started == [RopIdle EXCEPT !.op = "get_rooms", !.user_id = user_id,
                                       !.page = page, !.per_page = per_page]
            offset == get_rooms_offset(page, per_page, checked)
        IN  IF offset.panic
            THEN rop' = [rop EXCEPT ![p] = [started EXCEPT !.pc = "panicked"]]
            ELSE rop' = [rop EXCEPT ![p] =
                    [started EXCEPT !.pc = "count_rooms",
                        !.items = RoomRepository_list_rooms(rooms, room_members,
                                      U32Capped(offset.value, Len(rooms)),
                                      U32Capped(per_page, Len(rooms)))]]
    /\ UNCHANGED <<authVars, rooms, room_members, room_seq>>

\* get_rooms' second statement: count_rooms
get_rooms_count_rooms(p) ==
    /\ rop[p].op = "get_rooms" /\ rop[p].pc = "count_rooms"
    /\ rop' = [rop EXCEPT ![p].pc = "done",
                          ![p].total = RoomRepository_count_rooms(rooms, room_members,
                                                                 rop[p].user_id)]
    /\ UNCHANGED <<authVars, rooms, room_members, room_seq>>

-----------------------------------------------------------------------------
(* Room calls, two at a time, on a store that holds at most one room *)

\* the table users after alice, bobby and carol registered
SeededRoomUsers ==
    SeededUsers \o
    <<User(3, "carol", "c@x.io", hash_password("password1", "s1"), "offline", TRUE)>>

\* the room alice created, as create_room stores it
SeededRooms ==
    {<<Room(1, "general", None, room_type, 1, max_members)>> :
        room_type \in RoomTypes, max_members \in {None, Some(2)}}

\* the memberships of that room: alice its owner, bobby in any role or none
SeededMembers ==
    {{RoomMember(1, 1, "owner")} \cup second :
        second \in {{}} \cup {{RoomMember(1, 2, role)} : role \in MemberRoles \ {"owner"}}}

InitRooms ==
    /\ users = SeededRoomUsers
    /\ now = 0
    /\ leeway = DefaultLeeway
    /\ reg = <<>>
    /\ login = <<>>
    /\ req = <<>>
    /\ pure = NoPure
    /\ rop = [p \in RoomProcs |-> RopIdle]
    /\ \/ rooms = <<>> /\ room_members = {} /\ room_seq = 0
       \/ rooms \in SeededRooms /\ room_members \in SeededMembers /\ room_seq = 1

NextRooms ==
    \E p \in RoomProcs :
        \/ create_room_name_exists(p)
        \/ create_room_create(p)
        \/ create_room_add_member(p)
        \/ create_room_count_members(p)
        \/ update_room_find_by_id(p)
        \/ update_room_get_user_role(p)
        \/ update_room_update(p)
        \/ update_room_count_members(p)
        \/ delete_room_find_by_id(p)
        \/ delete_room_get_user_role(p)
        \/ delete_room_delete(p)
        \/ get_room_find_by_id(p)
        \/ get_room_is_member(p)
        \/ get_room_get_members(p)
        \/ get_room_get_user_role(p)
        \/ get_members_find_by_id(p)
        \/ get_members_is_member(p)
        \/ get_members_get_members(p)
        \/ join_room_find_by_id(p)
        \/ join_room_is_member(p)
        \/ join_room_count_members(p)
        \/ join_room_add_member(p)
        \/ join_room_get_members(p)
        \/ leave_room_find_by_id(p)
        \/ leave_room_get_user_role(p)
        \/ leave_room_remove_member(p)

SpecRooms == InitRooms /\ [][NextRooms]_vars

-----------------------------------------------------------------------------
(* Properties of the room calls *)

\* the step is the statement of call p that stands at pc
Statement(p, op, pc) ==
    rop[p].op = op /\ rop[p].pc = pc /\ rop'[p].pc # pc

\* the call of p has returned this error kind ("Ok" for success)
Returned_(p, op, kind) ==
    rop[p].op = op /\ rop[p].pc = "done" /\ rop[p].result.kind = kind

\* the roles the caller of p holds in the room of p
CallerRoles(p) ==
    {m.role : m \in {n \in room_members :
                        n.room_id = rop[p].room_id /\ n.user_id = rop[p].user_id}}

\* C15: no two rooms have the same name ignoring case, and a create_room
\* that passed the name pre-check and whose INSERT finds the name taken
\* returns RoomNameExists and stores nothing.
C15_CreateConflictIsRoomNameExists ==
    /\ [](\A i, j \in 1..Len(rooms) :
            i # j => Lower(rooms[i].name) # Lower(rooms[j].name))
    /\ [][\A p \in RoomProcs :
            (/\ Statement(p, "create_room", "create")
             /\ \E r \in RoomRows(rooms) : Lower(r.name) = Lower(rop[p].dto.name))
            => /\ rop'[p].pc = "done"
               /\ rop'[p].result = AppError("RoomNameExists", "")
               /\ rooms' = rooms]_vars

\* C16: every room has exactly one membership of role owner, that of the
\* room's owner_id.
C16_ExactlyOneOwner ==
    \A r \in RoomRows(rooms) :
        {m \in room_members : m.room_id = r.id /\ m.role = "owner"}
            = {RoomMember(r.id, r.owner_id, "owner")}

\* the step changes a row of rooms that stays
RoomAltered ==
    \E r \in RoomRows(rooms) : \E r2 \in RoomRows(rooms') : r2.id = r.id /\ r2 # r

\* C17: update_room, past validation and find_by_id, goes on to its UPDATE
\* exactly when the caller's role is owner or admin, and otherwise returns
\* InsufficientPermissions with rooms unchanged; the UPDATE of a room that is
\* still there, to a name no other room has, succeeds; no other statement
\* alters a row of rooms.
C17_UpdateNeedsOwnerOrAdmin ==
    [][/\ \A p \in RoomProcs :
            /\ Statement(p, "update_room", "get_user_role")
               => IF CallerRoles(p) \cap {"owner", "admin"} # {}
                  THEN rop'[p].pc = "update" /\ rop'[p].result = NoError
                  ELSE /\ rop'[p].pc = "done" /\ rooms' = rooms
                       /\ rop'[p].result = AppError("InsufficientPermissions", "")
            /\ (/\ Statement(p, "update_room", "update")
                /\ \E r \in RoomRows(rooms) : r.id = rop[p].room_id
                /\ \A n \in rop[p].updates.name :
                     ~\E r \in RoomRows(rooms) :
                        r.id # rop[p].room_id /\ Lower(r.name) = Lower(n))
               => /\ rop'[p].pc = "count_members" /\ rop'[p].result = NoError
                  /\ rop'[p].room \in RoomRows(rooms')
                  /\ \A n \in rop[p].updates.name : rop'[p].room.name = n
                  /\ \A t \in rop[p].updates.room_type : rop'[p].room.room_type = t
                  /\ rop[p].updates.max_members # None
                     => rop'[p].room.max_members = rop[p].updates.max_members
       /\ RoomAltered => \E p \in RoomProcs : Statement(p, "update_room", "update")]_vars

\* bobby, an admin of alice's room, has renamed it
C17_Witness ==
    \E p \in RoomProcs :
        /\ Returned_(p, "update_room", "Ok") /\ rop[p].user_id = 2
        /\ RoomMember(1, 2, "admin") \in room_members
        /\ \E r \in RoomRows(rooms) : r.id = 1 /\ r.name = "Lobby"

\* C18: delete_room, past find_by_id, goes on to its DELETE exactly when the
\* caller's role is owner, and otherwise returns OwnerRequired with the room
\* in place; the DELETE removes the room; no other statement removes a room.
C18_DeleteNeedsOwner ==
    [][/\ \A p \in RoomProcs :
            /\ Statement(p, "delete_room", "get_user_role")
               => IF "owner" \in CallerRoles(p)
                  THEN rop'[p].pc = "delete" /\ rop'[p].result = NoError
                  ELSE /\ rop'[p].pc = "done" /\ rooms' = rooms
                       /\ room_members' = room_members
                       /\ rop'[p].result = AppError("OwnerRequired", "")
            /\ (/\ Statement(p, "delete_room", "delete")
                /\ \E r \in RoomRows(rooms) : r.id = rop[p].room_id)
               => /\ rop'[p].pc = "done" /\ rop'[p].result = NoError
                  /\ ~\E r \in RoomRows(rooms') : r.id = rop[p].room_id
       /\ (\E r \in RoomRows(rooms) : ~\E r2 \in RoomRows(rooms') : r2.id = r.id)
          => \E p \in RoomProcs : Statement(p, "delete_room", "delete")]_vars

\* alice has deleted her room, and an admin's delete_room was refused
C18_Witness ==
    \E p, q \in RoomProcs :
        /\ Returned_(p, "delete_room", "Ok") /\ rop[p].user_id = 1
        /\ Returned_(q, "delete_room", "OwnerRequired") /\ rop[q].user_id = 2
        /\ rooms = <<>>

\* the memberships of the caller of p in the room of p
CallerMemberships(p) ==
    {m \in room_members : m.room_id = rop[p].room_id /\ m.user_id = rop[p].user_id}

\* C19: leave_room by the room's owner returns OwnerRequired and removes
\* nothing; leave_room by a member of another role removes that caller's
\* membership of the room and no other row.
C19_LeaveRoom ==
    [][\A p \in RoomProcs :
        /\ Statement(p, "leave_room", "get_user_role")
           => IF "owner" \in CallerRoles(p)
              THEN /\ rop'[p].pc = "done" /\ room_members' = room_members
                   /\ rop'[p].result = AppError("OwnerRequired", "")
              ELSE rop'[p].pc = "remove_member" /\ rop'[p].result = NoError
        /\ Statement(p, "leave_room", "remove_member") /\ CallerMemberships(p) # {}
           => /\ rop'[p].pc = "done" /\ rop'[p].result = NoError
              /\ room_members' = room_members \ CallerMemberships(p)
              /\ Cardinality(room_members') = Cardinality(room_members) - 1]_vars

\* bobby, in a role below owner, has left alice's room and alice's own
\* leave_room was refused: her membership is the one that remains
C19_Witness ==
    \E p, q \in RoomProcs :
        /\ Returned_(p, "leave_room", "Ok") /\ rop[p].user_id = 2
        /\ Returned_(q, "leave_room", "OwnerRequired") /\ rop[q].user_id = 1
        /\ room_members = {RoomMember(1, 1, "owner")}

\* C20: join_room by a user who has a membership in the room returns
\* AlreadyJoined and leaves room_members as it was.
C20_JoinTwice ==
    [][\A p \in RoomProcs :
        Statement(p, "join_room", "is_member") /\ CallerMemberships(p) # {}
        => /\ rop'[p].pc = "done"
           /\ rop'[p].result = AppError("AlreadyJoined", "")
           /\ room_members' = room_members]_vars

\* carol has joined alice's room, and her second join_room was refused
C20_Witness ==
    \E p, q \in RoomProcs :
        /\ Returned_(p, "join_room", "Ok") /\ rop[p].user_id = 3
        /\ Returned_(q, "join_room", "AlreadyJoined") /\ rop[q].user_id = 3
        /\ rop[p].room_id = rop[q].room_id
        /\ Cardinality({m \in room_members : m.user_id = 3}) = 1


\* the memberships of the room of p
RoomMemberships(p) == {m \in room_members : m.room_id = rop[p].room_id}

\* C21: join_room by a user with no membership in a public room that has
\* max_members set goes on to count the members, and when the count is
\* max_members or more it returns RoomFull and leaves room_members as it was.
C21_FullRoomRefused ==
    [][\A p \in RoomProcs :
        /\ (/\ Statement(p, "join_room", "is_member")
            /\ CallerMemberships(p) = {}
            /\ rop[p].room.room_type = "public"
            /\ rop[p].room.max_members # None)
           => rop'[p].pc = "count_members" /\ room_members' = room_members
        /\ (/\ Statement(p, "join_room", "count_members")
            /\ rop[p].room.room_type = "public"
            /\ \E max \in rop[p].room.max_members :
                    Cardinality(RoomMemberships(p)) >= max)
           => /\ rop'[p].pc = "done"
              /\ rop'[p].result = AppError("RoomFull", "")
              /\ room_members' = room_members]_vars

\* carol's join_room of alice's public room of two, alice and bobby in it,
\* was refused
C21_Witness ==
    \E p \in RoomProcs :
        /\ Returned_(p, "join_room", "RoomFull") /\ rop[p].user_id = 3
        /\ rop[p].room.room_type = "public" /\ rop[p].room.max_members = Some(2)
        /\ {m.user_id : m \in RoomMemberships(p)} = {1, 2}


\* C22: join_room by a user with no membership in a private room returns
\* PrivateNoAccess, whatever max_members and the count of members are, and
\* stores no membership.
C22_PrivateNeverJoined ==
    [][\A p \in RoomProcs :
        (/\ rop[p].op = "join_room"
         /\ rop[p].pc \in {"is_member", "count_members"}
         /\ rop[p].room.room_type = "private"
         /\ CallerMemberships(p) = {}
         /\ rop'[p].pc \notin {rop[p].pc, "count_members"})
        => /\ rop'[p].pc = "done"
           /\ rop'[p].result = AppError("PrivateNoAccess", "")
           /\ room_members' = room_members]_vars


RolesIn(mems, room_id, user_id) ==
    {m.role : m \in {n \in mems : n.room_id = room_id /\ n.user_id = user_id}}

\* C24: the role a user holds in a room changes only from
\* none to owner by the add_member of that user's create_room of the room,
\* from none to member by the add_member of that user's join_room, and to
\* none by the remove_member of that user's leave_room or by the DELETE of a
\* delete_room of the room; the role of a stored membership never changes.
C24_RoleTransitions ==
    [][\A room_id \in 1..(room_seq + 1), user_id \in UserIds(users) :
         LET before == RolesIn(room_members, room_id, user_id)
             after == RolesIn(room_members', room_id, user_id)
         IN  before # after
             => \/ /\ before = {} /\ after = {"owner"}
                   /\ \E p \in RoomProcs :
                         /\ Statement(p, "create_room", "add_member")
                         /\ rop[p].room.id = room_id /\ rop[p].user_id = user_id
                \/ /\ before = {} /\ after = {"member"}
                   /\ \E p \in RoomProcs :
                         /\ Statement(p, "join_room", "add_member")
                         /\ rop[p].room_id = room_id /\ rop[p].user_id = user_id
                \/ /\ after = {}
                   /\ \E p \in RoomProcs :
                         /\ Statement(p, "leave_room", "remove_member")
                         /\ rop[p].room_id = room_id /\ rop[p].user_id = user_id
                \/ /\ after = {}
                   /\ \E p \in RoomProcs :
                         /\ Statement(p, "delete_room", "delete")
                         /\ rop[p].room_id = room_id]_vars

\* carol created a room and owns it, and bobby joined it and is a member
C24_Witness ==
    \E p, q \in RoomProcs :
        /\ Returned_(p, "create_room", "Ok") /\ rop[p].user_id = 3
        /\ Returned_(q, "join_room", "Ok") /\ rop[q].user_id = 2
        /\ rop[q].room_id = rop[p].room.id
        /\ RolesIn(room_members, rop[p].room.id, 3) = {"owner"}
        /\ RolesIn(room_members, rop[p].room.id, 2) = {"member"}


\* another row than room_id's has this name, ignoring case
NameUsedByAnother(name, room_id) ==
    \E r \in RoomRows(rooms) : r.id # room_id /\ Lower(r.name) = Lower(name)

\* C25: no two rows of rooms have names equal ignoring case; a create_room
\* whose name a row has, at its pre-check or at its INSERT, and an
\* update_room whose UPDATE sets a name another row has, return an error and
\* leave rooms as it was.
C25_NamesUniqueIgnoringCase ==
    /\ [](\A i, j \in 1..Len(rooms) :
            Lower(rooms[i].name) = Lower(rooms[j].name) => i = j)
    /\ [][\A p \in RoomProcs :
            /\ (/\ rop[p].pc = "idle" /\ rop'[p].op = "create_room"
                /\ NameUsedByAnother(rop'[p].dto.name, 0))
               => /\ rop'[p].pc = "done" /\ rop'[p].result # NoError
                  /\ rooms' = rooms
            /\ (/\ Statement(p, "create_room", "create")
                /\ NameUsedByAnother(rop[p].dto.name, 0))
               => /\ rop'[p].pc = "done" /\ rop'[p].result # NoError
                  /\ rooms' = rooms
            /\ (/\ Statement(p, "update_room", "update")
                /\ \E n \in rop[p].updates.name :
                        NameUsedByAnother(n, rop[p].room_id))
               => /\ rop'[p].pc = "done" /\ rop'[p].result # NoError
                  /\ rooms' = rooms]_vars

\* beside the room "general" a room "lobby" was created, and the rename of
\* "general" to "Lobby" by its owner was rejected
C25_Witness ==
    \E p, q \in RoomProcs :
        /\ Returned_(p, "create_room", "Ok") /\ rop[p].dto.name = "lobby"
        /\ rop[q].op = "update_room" /\ rop[q].pc = "done"
        /\ rop[q].result # NoError /\ rop[q].user_id = 1 /\ rop[q].room_id = 1
        /\ rop[q].updates.name = Some("Lobby")
        /\ {r.name : r \in RoomRows(rooms)} = {"general", "lobby"}


\* C26: every membership is of a room that is stored, and the DELETE of a
\* delete_room that succeeds leaves no membership of the deleted room.
C26_NoMembershipWithoutRoom ==
    /\ [](\A m \in room_members : \E r \in RoomRows(rooms) : r.id = m.room_id)
    /\ [][\A p \in RoomProcs :
            (/\ Statement(p, "delete_room", "delete")
             /\ rop'[p].result = NoError)
            => /\ ~\E m \in room_members' : m.room_id = rop[p].room_id
               /\ ~\E r \in RoomRows(rooms') : r.id = rop[p].room_id]_vars

\* alice deleted her room, in which bobby was, while carol's join_room of it
\* was past its checks: carol's INSERT was refused and no membership is left
C26_Witness ==
    \E p, q \in RoomProcs :
        /\ Returned_(p, "delete_room", "Ok") /\ rop[p].user_id = 1
        /\ rop[q].op = "join_room" /\ rop[q].pc = "done" /\ rop[q].user_id = 3
        /\ rop[q].room_id = rop[p].room_id
        /\ rop[q].result.kind = "DatabaseError"
        /\ rooms = <<>> /\ room_members = {}


-----------------------------------------------------------------------------
(* One client session after another: a registration, a login, a create_room
   and two join_room calls, each request sent when the one before returned *)

\* the table users before the registration: bobby and carol are registered
EndToEndUsers ==
    <<User(1, "bobby", "b@x.io", hash_password("password1", "s2"), "offline", TRUE),
      User(2, "carol", "c@x.io", hash_password("password1", "s1"), "offline", TRUE)>>

\* the requests, in the order they are sent
EndToEndRegister == "r1"
EndToEndLogin == "l1"
EndToEndCreate == "e1"
EndToEndJoins == <<"e2", "e3">>

InitEndToEnd ==
    /\ users = EndToEndUsers
    /\ now = 0
    /\ leeway = DefaultLeeway
    /\ reg = [p \in {EndToEndRegister} |-> RegIdle]
    /\ login = [p \in {EndToEndLogin} |-> LoginIdle]
    /\ req = <<>>
    /\ pure = NoPure
    /\ rooms = <<>> /\ room_members = {} /\ room_seq = 0
    /\ rop = [p \in {EndToEndCreate, EndToEndJoins[1], EndToEndJoins[2]} |-> RopIdle]

NextEndToEnd ==
    \/ register_email_exists(EndToEndRegister)
    \/ register_username_exists(EndToEndRegister)
    \/ register_create(EndToEndRegister)
    \/ /\ reg[EndToEndRegister].pc = "done"
       /\ \/ login_find_by_email(EndToEndLogin)
          \/ login_update_status(EndToEndLogin)
    \/ /\ login[EndToEndLogin].pc = "done"
       /\ \/ create_room_name_exists(EndToEndCreate)
          \/ create_room_create(EndToEndCreate)
          \/ create_room_add_member(EndToEndCreate)
          \/ create_room_count_members(EndToEndCreate)
    \/ \E i \in 1..Len(EndToEndJoins) :
        /\ rop[IF i = 1 THEN EndToEndCreate ELSE EndToEndJoins[i - 1]].pc = "done"
        /\ \/ join_room_find_by_id(EndToEndJoins[i])
           \/ join_room_is_member(EndToEndJoins[i])
           \/ join_room_count_members(EndToEndJoins[i])
           \/ join_room_add_member(EndToEndJoins[i])
           \/ join_room_get_members(EndToEndJoins[i])

SpecEndToEnd == InitEndToEnd /\ [][NextEndToEnd]_vars


\* alice registered, logged in, and her create_room of the public room
\* "general" with max_members 2 returned
AliceCreatedGeneral ==
    /\ reg[EndToEndRegister].pc = "done" /\ reg[EndToEndRegister].result = NoError
    /\ reg[EndToEndRegister].user.username = "alice"
    /\ login[EndToEndLogin].pc = "done" /\ login[EndToEndLogin].result = NoError
    /\ login[EndToEndLogin].user.id = reg[EndToEndRegister].user.id
    /\ rop[EndToEndCreate].pc = "done"
    /\ rop[EndToEndCreate].user_id = login[EndToEndLogin].user.id
    /\ rop[EndToEndCreate].dto = CreateRoomDto("general", None, "public", Some(2))

\* the join_room sent as i-th after the create_room, by user_id and of the
\* room created, returned
JoinedGeneral(i, user_id) ==
    /\ rop[EndToEndJoins[i]].pc = "done"
    /\ rop[EndToEndJoins[i]].user_id = user_id
    /\ rop[EndToEndJoins[i]].room_id = rop[EndToEndCreate].room.id

-----------------------------------------------------------------------------
(* Properties of utils/password.rs *)

\* the passwords and salts whose hash_password result is this hash string
HashedFrom(password_hash) ==
    {in \in PasswordInputs \X Salts : hash_password(in[1], in[2]) = password_hash}

\* C28: verify_password of q against a hash that hash_password made of p
\* returns Ok(true) when q = p and Ok(false) when q differs from p; against
\* any hash string it returns an error, InternalError, exactly when the
\* string is no PHC string, so never for a password that does not match.
C28_VerifyAgainstHash ==
    HasReturned("verify_password")
    => /\ \A in \in HashedFrom(pure.in.password_hash) :
            /\ pure.out.err = NoError
            /\ pure.out.valid = (pure.in.password = in[1])
       /\ pure.out.err # NoError
          <=> pure.in.password_hash \in {<<>>, <<"password1">>}
       /\ pure.out.err # NoError => pure.out.err.kind = "InternalError"
       /\ pure.out.valid => pure.in.password_hash \in
                {hash_password(pure.in.password, salt) : salt \in Salts}

\* the wrong password against a hash of "password1" gave Ok(false)
C28_Witness ==
    /\ HasReturned("verify_password")
    /\ pure.in.password = "hunter22"
    /\ pure.in.password_hash = hash_password("password1", "s1")
    /\ pure.out = [err |-> NoError, valid |-> FALSE]

\* C29: two calls of hash_password on one password, each with the salt the
\* generator drew for it, return two different hash strings, and
\* verify_password of the password returns Ok(true) against both.
C29_SaltedHashesDiffer ==
    HasReturned("hash_password")
    => /\ pure.out.hash1 # pure.out.hash2
       /\ pure.out.hash1[2] # pure.out.hash2[2]
       /\ pure.out.verify1 = [err |-> NoError, valid |-> TRUE]
       /\ pure.out.verify2 = [err |-> NoError, valid |-> TRUE]

\* "password1" was hashed twice, under the salts s1 and s2
C29_Witness ==
    /\ HasReturned("hash_password")
    /\ pure.in.password = "password1"
    /\ pure.out.hash1 = <<"$argon2id", "s1", Argon2("password1", "s1")>>
    /\ pure.out.hash2 = <<"$argon2id", "s2", Argon2("password1", "s2")>>


-----------------------------------------------------------------------------
(* Properties of the error envelope (error.rs) *)

\* the code has this word
CodeHas(word) == \E i \in DOMAIN pure.out.code : pure.out.code[i] = word

\* the code has these two words, one after the other
CodeHasPair(first, second) ==
    \E i \in DOMAIN pure.out.code :
        /\ i + 1 \in DOMAIN pure.out.code
        /\ pure.out.code[i] = first /\ pure.out.code[i + 1] = second

\* the category of the error, read from its code
TokenOrCredential == CodeHas("TOKEN") \/ CodeHas("CREDENTIALS")
NotFound == CodeHasPair("NOT", "FOUND")
Conflict == CodeHas("EXISTS") \/ CodeHas("ALREADY") \/ CodeHas("FULL")
RateLimit == CodeHasPair("RATE", "LIMIT")
ServerFailure == CodeHas("DATABASE") \/ CodeHas("REDIS") \/ CodeHas("INTERNAL")
Permission ==
    \/ CodeHas("LOCKED") \/ CodeHas("PERMISSIONS") \/ CodeHas("ACCESS")
    \/ CodeHas("REQUIRED") \/ CodeHasPair("NOT", "MEMBER") \/ CodeHasPair("NOT", "OWNER")
Validation ==
    /\ ~TokenOrCredential /\ ~RateLimit
    /\ \/ CodeHas("VALIDATION") \/ CodeHas("INVALID") \/ CodeHas("WEAK")
       \/ CodeHas("EMPTY") \/ CodeHas("LONG")

\* C30: the status of an error's response is that of the category its code
\* names: 401 for a token or credential error, 403 for a permission error,
\* 404 for not-found, 409 for a conflict, 422 for a validation error, 429
\* for a rate-limit kind and 500 for an internal or storage failure; every
\* kind is of exactly one of these categories.
C30_StatusOfCategory ==
    HasReturned("status_code")
    => /\ TokenOrCredential <=> pure.out.status = 401
       /\ Permission <=> pure.out.status = 403
       /\ NotFound <=> pure.out.status = 404
       /\ Conflict <=> pure.out.status = 409
       /\ Validation <=> pure.out.status = 422
       /\ RateLimit <=> pure.out.status = 429
       /\ ServerFailure <=> pure.out.status = 500
       /\ pure.out.status \in {401, 403, 404, 409, 422, 429, 500}

\* RoomFull, a conflict, was answered with 409
C30_Witness ==
    /\ HasReturned("status_code") /\ pure.in = "RoomFull"
    /\ pure.out.code = <<"ROOM", "FULL">> /\ pure.out.status = 409


\* C31: two errors of kind DatabaseError, RedisError or InternalError get
\* the same code, message and details in their responses whatever text each
\* carries, and that text is no part of the response.
C31_ServerErrorsGeneric ==
    HasReturned("to_response")
    /\ pure.in.kind \in {"DatabaseError", "RedisError", "InternalError"}
    => /\ pure.out[1].code = pure.out[2].code
       /\ pure.out[1].message = pure.out[2].message
       /\ pure.out[1].details = {} /\ pure.out[2].details = {}
       /\ \A i \in {1, 2} : \A j \in DOMAIN pure.out[i].message :
            pure.out[i].message[j] \notin ErrorDetails

\* two database errors carrying different driver texts, answered at
\* different times, got the one generic body
C31_Witness ==
    /\ HasReturned("to_response") /\ pure.in.kind = "DatabaseError"
    /\ pure.in.msg1 # pure.in.msg2 /\ pure.in.t1 # pure.in.t2
    /\ pure.out[1].message = <<"Database operation failed">>
    /\ pure.out[2].message = <<"Database operation failed">>
    /\ pure.out[1].timestamp # pure.out[2].timestamp


-----------------------------------------------------------------------------
(* Listings of the rooms, beside calls that create and delete rooms *)

NextList ==
    \E p \in RoomProcs :
        \/ get_rooms_list_rooms(p)
        \/ get_rooms_count_rooms(p)
        \/ create_room_name_exists(p)
        \/ create_room_create(p)
        \/ create_room_add_member(p)
        \/ create_room_count_members(p)
        \/ delete_room_find_by_id(p)
        \/ delete_room_get_user_role(p)
        \/ delete_room_delete(p)

SpecList == InitRooms /\ [][NextList]_vars

\* the rooms user_id may read: the public ones and those holding the user
Accessible(user_id) ==
    {r \in RoomRows(rooms) :
        \/ r.room_type = "public"
        \/ \E m \in room_members : m.room_id = r.id /\ m.user_id = user_id}

\* C32: the rooms get_rooms lists are rooms the caller may read (public, or
\* holding the caller), and the total it reports is the number of such rooms.
C32_ListsAccessibleRooms ==
    [][\A p \in RoomProcs :
        /\ (rop[p].pc = "idle" /\ rop'[p].op = "get_rooms" /\ rop'[p].pc = "count_rooms")
           => \A i \in 1..Len(rop'[p].items) :
                \E r \in Accessible(rop'[p].user_id) : r.id = rop'[p].items[i].id
        /\ Statement(p, "get_rooms", "count_rooms")
           => rop'[p].total = Cardinality(Accessible(rop[p].user_id))]_vars


\* the product (page - 1) * per_page as a number, for operands small enough
OffsetExact(page, per_page) ==
    (U32Capped(page, 3) - 1) * U32Capped(per_page, 20)

\* C39: for every page and per_page the handler accepts, get_rooms computes the
\* offset (page - 1) * per_page: the subtraction does not pass below zero, the
\* product does not pass 32 bits, no request ends in a panic, and the value is
\* the product of the numbers.
C39_OffsetWithoutOverflow ==
    HasReturned("get_rooms_offset")
    => /\ ~pure.out.panic
       /\ ~U32SubOne(pure.in.page).overflow
       /\ ~U32Mul(U32SubOne(pure.in.page).value, pure.in.per_page).overflow
       /\ (U32Capped(pure.in.page, 3) \in 1..3 /\ U32Capped(pure.in.per_page, 20) <= 20)
          => pure.out.value = ToU32(OffsetExact(pure.in.page, pure.in.per_page))

\* page and per_page in range: the offset is the product of the numbers
C39_InRange ==
    (/\ HasReturned("get_rooms_offset")
     /\ U32Capped(pure.in.page, 3) \in 1..3
     /\ U32Capped(pure.in.per_page, 20) <= 20)
    => /\ ~pure.out.panic
       /\ pure.out.value = ToU32(OffsetExact(pure.in.page, pure.in.per_page))

\* page 0 in the build that wraps: the offset 4294967276 for per_page 20
C39_Wrapped ==
    (/\ HasReturned("get_rooms_offset") /\ ~pure.in.checked
     /\ pure.in.page = U32Zero /\ pure.in.per_page = ToU32(20))
    => pure.out = [panic |-> FALSE, value |-> <<236, 255, 255, 255>>]


\* C33: a room whose max_members is set never holds more than max_members
\* memberships, whatever the interleaving of joins and updates.
C33_NeverAboveMaxMembers ==
    \A r \in RoomRows(rooms) :
        r.max_members # None
        => Cardinality({m \in room_members : m.room_id = r.id}) <= Unwrap(r.max_members)


\* C34: of two concurrent join_room calls of one user that both passed the
\* membership pre-check, the one whose insert comes second stores nothing, so
\* that one membership of the pair exists, and it fails with AlreadyJoined.
C34_LosingJoinIsAlreadyJoined ==
    [][\A p \in RoomProcs :
        (Statement(p, "join_room", "add_member") /\ CallerMemberships(p) # {})
        => /\ room_members' = room_members
           /\ Cardinality(CallerMemberships(p)) = 1
           /\ rop'[p].pc = "done"
           /\ rop'[p].result.kind = "AlreadyJoined"]_vars

\* the part of C34 that holds: the second insert stores nothing and fails
C34_LosingJoinStoresNothing ==
    [][\A p \in RoomProcs :
        (Statement(p, "join_room", "add_member") /\ CallerMemberships(p) # {})
        => /\ room_members' = room_members
           /\ Cardinality(CallerMemberships(p)) = 1
           /\ rop'[p].pc = "done"
           /\ rop'[p].result.kind # "Ok"]_vars


-----------------------------------------------------------------------------
(* The user projection of the login response *)

\* impl From<User> for UserResponse: the row without its password hash
UserResponse_from(user) ==
    [id |-> user.id, username |-> user.username, email |-> user.email,
     status |-> user.status, is_active |-> user.is_active]

\* C38: the user projection a successful login returns reports the status the
\* login has just stored, online, as the store holds it when login returns.
C38_LoginReportsOnline ==
    [][\A p \in LoginProcs :
        (login[p].pc = "update_status" /\ login'[p].pc = "done"
            /\ login'[p].result = NoError)
        => LET response == UserResponse_from(login'[p].user)
           IN  /\ response.status = "online"
               /\ \E u \in Rows(users') :
                    u.id = response.id /\ u.status = response.status]_vars


-----------------------------------------------------------------------------
(* Calls that return an error *)

\* the errors update_room, delete_room, join_room and leave_room refuse with
RefusalKinds ==
    {"ValidationError", "RoomNotFound", "InsufficientPermissions", "OwnerRequired",
     "AlreadyJoined", "RoomFull", "PrivateNoAccess", "NotMember"}

\* the positions of a call that follow its statement that writes
AfterWrite(op) ==
    IF op = "update_room" THEN {"count_members"}
    ELSE IF op = "join_room" THEN {"get_members"}
    ELSE {}

\* C35: an update_room, delete_room, join_room or leave_room call that returns
\* one of the refusals returns it from a statement that writes nothing, before
\* any statement of the call that writes: rooms and memberships stay as they
\* were.
C35_RefusedCallsWriteNothing ==
    [][\A p \in RoomProcs :
        (/\ rop[p].pc # "done" /\ rop'[p].pc = "done"
         /\ rop'[p].op \in {"update_room", "delete_room", "join_room", "leave_room"}
         /\ rop'[p].result.kind \in RefusalKinds)
        => /\ rooms' = rooms
           /\ room_members' = room_members
           /\ rop[p].pc \notin AfterWrite(rop'[p].op)]_vars

\* a join refused for a full room beside a delete refused for a caller who is
\* not the owner, the room and its two memberships in place
C35_Witness ==
    /\ \E p \in RoomProcs : Returned_(p, "join_room", "RoomFull")
    /\ \E p \in RoomProcs : Returned_(p, "delete_room", "OwnerRequired")
    /\ Len(rooms) = 1 /\ Cardinality(room_members) = 2


-----------------------------------------------------------------------------
(* Partial update *)

\* the row of rooms with this id
RoomOf(rms, room_id) == CHOOSE r \in RoomRows(rms) : r.id = room_id

\* C37: the UPDATE of a successful update_room sets the fields the patch has
\* to the patch's values and leaves the fields it has not, the id, the owner,
\* the other rows and every membership as they were; with no field in the
\* patch the room is returned as stored and nothing is written.
C37_UpdateChangesPatchedFieldsOnly ==
    [][\A p \in RoomProcs :
        (Statement(p, "update_room", "update") /\ rop'[p].pc = "count_members")
        => LET updates == rop[p].updates
               old == RoomOf(rooms, rop[p].room_id)
               new == RoomOf(rooms', rop[p].room_id)
           IN  /\ \E r \in RoomRows(rooms) : r.id = rop[p].room_id
               /\ Len(rooms') = Len(rooms)
               /\ \A i \in 1..Len(rooms) :
                    rooms[i].id # rop[p].room_id => rooms'[i] = rooms[i]
               /\ new.id = old.id /\ new.owner_id = old.owner_id
               /\ new.name = IF updates.name = None THEN old.name
                             ELSE Unwrap(updates.name)
               /\ new.description = IF updates.description = None THEN old.description
                                    ELSE updates.description
               /\ new.room_type = IF updates.room_type = None THEN old.room_type
                                  ELSE Unwrap(updates.room_type)
               /\ new.max_members = IF updates.max_members = None THEN old.max_members
                                    ELSE updates.max_members
               /\ rop'[p].room = new
               /\ room_members' = room_members
               /\ updates = NoUpdateRoomDto => rooms' = rooms]_vars

\* a patch of description and room_type was applied to alice's public room
\* "general" of at most 2 members: name and max_members are as they were
C37_Witness ==
    \E p \in RoomProcs :
        /\ Returned_(p, "update_room", "Ok")
        /\ rop[p].updates = UpdateRoomDto(None, Some("d"), Some("private"), None)
        /\ rooms = <<Room(1, "general", Some("d"), "private", 1, Some(2))>>

\* an update_room with no field in its patch has returned the room as stored
C37_WitnessEmptyPatch ==
    \E p \in RoomProcs :
        /\ Returned_(p, "update_room", "Ok")
        /\ rop[p].updates = NoUpdateRoomDto
        /\ rop[p].room \in RoomRows(rooms)


-----------------------------------------------------------------------------
(* Calls on a room that is not there *)

\* the calls that name a room
RoomCalls ==
    {"get_room", "update_room", "delete_room", "join_room", "leave_room", "get_members"}

\* the call of p returns from a statement that ran when rooms did not hold
\* the room, the body of an update_room being valid
ReturnsOnMissingRoom(p) ==
    /\ rop[p].pc # "done" /\ rop'[p].pc = "done"
    /\ rop'[p].op \in RoomCalls
    /\ validate_UpdateRoomDto(rop'[p].updates)
    /\ ~\E r \in RoomRows(rooms) : r.id = rop'[p].room_id

\* C36: a room call that returns when the room does not exist, be it from its
\* first statement or from one that follows a concurrent delete_room, returns
\* RoomNotFound.
C36_MissingRoomIsRoomNotFound ==
    [][\A p \in RoomProcs :
        ReturnsOnMissingRoom(p) => rop'[p].result.kind = "RoomNotFound"]_vars

\* the part of C36 that holds: the first statement of each call, find_by_id
C36_FirstStatement ==
    [][\A p \in RoomProcs :
        (ReturnsOnMissingRoom(p) /\ rop[p].pc = "idle")
        => rop'[p].result.kind = "RoomNotFound"]_vars

=====
